---- MODULE Spec2Model ----
(***************************************************************************)
(* PoloDB language bindings: the document value model, the conversion      *)
(* between engine Values and host values (Python extension, Node.js        *)
(* addon), and the cursor (DbHandle) protocol that streams query results.  *)
(*                                                                         *)
(* The storage engine behind the PLDB_* functions is not part of the       *)
(* bindings; the few engine operations the bindings rely on are modelled   *)
(* from their documented contract and are marked as such where defined.    *)
(***************************************************************************)
EXTENDS Integers, Sequences, FiniteSets, TLC

VARIABLES
  \* ---- engine side of one query execution (DbHandle) ----
  rows,        \* the result set of the query, in the engine's natural order
  hstate,      \* cursor state: "None" (no handle), Ready, HasRow, Exhausted, Failed
  hpos,        \* number of rows fetched so far (the current row is rows[hpos])
  errmsg,      \* PLDB_error_msg(): the engine's last error message
  \* ---- CollectionObject_find of the Python extension ----
  pc,          \* position inside CollectionObject_find
  handle,      \* DbHandle* handle: "NULL" or "H"
  result,      \* PyObject* result: PyNULL or a Python list
  pyerr,       \* the pending Python exception ("none" when there is none)
  ret,         \* what find returned: "none" (still running), "NULL" or "list"
  nstep,       \* PLDB_handle_step calls issued on the handle
  nget,        \* PLDB_handle_get calls issued on the handle
  nfree,       \* PLDB_free_handle calls issued on the handle PLDB_find produced
  nfreeNull,   \* PLDB_free_handle calls issued on a NULL handle
  stepFailed,  \* a PLDB_handle_step call returned a negative code
  afterFail,   \* step/get calls issued after a failed step
  \* ---- Node.js addon: the handle functions called from JavaScript ----
  jsop,        \* the last addon function called ("none" before the first)
  jsat,        \* the cursor state when it was called
  jsret,       \* what it returned to JavaScript
  jsexc,       \* the error it threw ("none" when it returned normally)
  jscalls,     \* addon calls made so far
  \* ---- conversion layer, one conversion per behaviour ----
  ckind,       \* which conversion the input is for
  cin,         \* the input of the conversion
  cout,        \* its output
  cdone,       \* whether the conversion has run
  \* ---- Document iterator and its two consumers ----
  ithost,      \* the consumer: "py" (DocumentTypeValueToPyObject) or "js"
  itdoc,       \* the entries of the Document the iterator was made for
  itpos,       \* entries the iterator has consumed
  itcalls,     \* PLDB_doc_iter_next calls issued
  itpc,        \* position of the consumer: "next", "body", "done", "crashed"
  itlast,      \* what the last PLDB_doc_iter_next call returned
  itacc,       \* the entries handed to the host so far
  iterr,       \* the error reported to the host ("none" when there is none)
  \* ---- Node.js addon: one call of a value / container / database function ----
  aop,         \* the function called ("none" before the call)
  aarg,        \* the Value or container it was called on
  aidx,        \* its integer argument (index or flags)
  aeng,        \* what the engine function it forwarded to returned
  aout,        \* what the caller sees: [kind, val, msg]
  \* ---- Database and Collection objects: one host method call per step ----
  dhost,       \* the binding object: "py", "js_ext" (js_open's external), "js_obj"
  dself,       \* the binding's pointer: "db", or "NULL" (self->db = NULL, wrap removed)
  dengine,     \* the engine's Database: "open" or "closed" (PLDB_close freed it)
  dalive,      \* the host object has not been deallocated / finalized
  dcol,        \* a Python Collection object made from the Database exists
  dop,         \* the last host method called ("none" before the first)
  darg,        \* its argument
  dtrace,      \* the engine-facing calls it issued, in order: [fn, h, n, rc]
  dout,        \* what the host sees: [kind, msg, n]
  ddict,       \* the entries of the caller's dict after the call
  dmsg,        \* PLDB_error_msg(): the message of the last engine failure
  dncalls,     \* host method calls made so far
  nclose       \* PLDB_close calls issued on the Database the binding opened

vars == << rows, hstate, hpos, errmsg, pc, handle, result, pyerr, ret, nstep,
           nget, nfree, nfreeNull, stepFailed, afterFail, jsop, jsat, jsret,
           jsexc, jscalls, ckind, cin, cout, cdone, ithost, itdoc, itpos,
           itcalls, itpc, itlast, itacc, iterr, aop, aarg, aidx, aeng, aout,
           dhost, dself, dengine, dalive, dcol, dop, darg, dtrace, dout,
           ddict, dmsg, dncalls, nclose >>

engineVars == << rows, hstate, hpos, errmsg >>
findVars == << pc, handle, result, pyerr, ret, nstep, nget, nfree, nfreeNull,
               stepFailed, afterFail >>
jsVars == << jsop, jsat, jsret, jsexc, jscalls >>
convVars == << ckind, cin, cout, cdone >>
iterVars == << ithost, itdoc, itpos, itcalls, itpc, itlast, itacc, iterr >>
apiVars == << aop, aarg, aidx, aeng, aout >>
dbVars == << dhost, dself, dengine, dalive, dcol, dop, darg, dtrace, dout,
             ddict, dmsg, dncalls, nclose >>

-----------------------------------------------------------------------------
(* Bounds of the model.                                                    *)

MaxRows == 2        \* longest result set
MaxJsCalls == 5     \* addon calls per behaviour
MaxDocLen == 2      \* longest Document / keyed object of the conversion inputs

-----------------------------------------------------------------------------
(* The Value model: enum PLDB_VALUE_TYPE and the containers.               *)
(* A Value is [tag, n, s]: n is the scalar payload (0 for containers) and   *)
(* s the children (empty for scalars): a Document's [key, value] entries   *)
(* in iteration order, an Array's Values.  Booleans are 0/1, Doubles and   *)
(* host floats/numbers are written in tenths (15 is 1.5), strings,         *)
(* ObjectIds and binaries are numbered, a UTCDateTime is its payload.      *)

PLDB_VALUE_TYPE ==
  { "Null", "Double", "Boolean", "Int", "String", "ObjectId", "Array",
    "Document", "Binary", "UTCDateTime" }

DbValue(tag, n) == [tag |-> tag, n |-> n, s |-> << >>]
DbDoc(entries) == [tag |-> "Document", n |-> 0, s |-> entries]
DbArr(items) == [tag |-> "Array", n |-> 0, s |-> items]
DbNull == DbValue("Null", 0)
DbEntry(key, value) == [key |-> key, value |-> value]

\* A NULL DbValue* / DbDocument* / DbArray* (the error return of a conversion).
DbNULL == DbValue("NULL", 0)
\* The process died (abort(), failed assertion, NULL dereference).
DbCRASH == DbValue("CRASH", 0)

\* Document.set: overwrite in place when the key exists, else append.
RECURSIVE KeyIndex(_, _, _)
KeyIndex(entries, key, i) ==
  IF i > Len(entries) THEN 0
  ELSE IF entries[i].key = key THEN i
  ELSE KeyIndex(entries, key, i + 1)

PLDB_doc_set(entries, key, value) ==
  LET i == KeyIndex(entries, key, 1) IN
    IF i = 0 THEN Append(entries, DbEntry(key, value))
    ELSE [entries EXCEPT ![i] = DbEntry(key, value)]

-----------------------------------------------------------------------------
(* Python host values: [py, n, s], laid out like Values; a dict's s is its  *)
(* [key, value] entries in insertion order, a list's s its items.          *)

PyObj(py, n) == [py |-> py, n |-> n, s |-> << >>]
PyDict(entries) == [py |-> "dict", n |-> 0, s |-> entries]
PyList(items) == [py |-> "list", n |-> 0, s |-> items]
PyNone == PyObj("None", 0)
\* A NULL PyObject* (an exception is pending).
PyNULL == PyObj("NULL", 0)
\* The process died.
PyCRASH == PyObj("CRASH", 0)

\* PyDict_SetItemString on a dict kept as a sequence of entries in insertion
\* order: an existing key keeps its position and gets the new value.
PyDict_SetItemString(entries, key, value) == PLDB_doc_set(entries, key, value)

-----------------------------------------------------------------------------
(* Value -> Python (DbValueToPyObject and its helpers).                    *)
(*                                                                         *)
(* DocumentTypeValueToPyObject keeps the key in `static char               *)
(* key_buffer[512]`: one buffer shared by every activation, the recursive  *)
(* ones included.  The buffer is therefore threaded through the            *)
(* conversion: each operator takes the buffer's content and returns        *)
(* [obj, kb], the host object and the buffer's content afterwards.         *)

PyRes(obj, kb) == [obj |-> obj, kb |-> kb]

\* PyDateTime_FromTimestamp((t,)): the datetime t SECONDS after the epoch,
\* kept as its millisecond count.
PyDateTime_FromTimestamp(t) == PyObj("datetime", t * 1000)

RECURSIVE DbValueToPyObject(_, _)
RECURSIVE ArrayTypeValueToPyObject_loop(_, _, _, _)
RECURSIVE DocumentTypeValueToPyObject_loop(_, _, _, _)

\* for (i = 0; i < arr_len; i++): item == NULL returns NULL at once.
ArrayTypeValueToPyObject_loop(arr, i, acc, kb) ==
  IF i > Len(arr) THEN PyRes(PyList(acc), kb)
  ELSE LET r == DbValueToPyObject(arr[i], kb) IN
         IF r.obj \in {PyNULL, PyCRASH} THEN r
         ELSE ArrayTypeValueToPyObject_loop(arr, i + 1, Append(acc, r.obj), r.kb)

ArrayTypeValueToPyObject(value, kb) ==
  ArrayTypeValueToPyObject_loop(value.s, 1, << >>, kb)

\* while (PLDB_doc_iter_next(iter, key_buffer, 512, &value_tmp)): the iterator
\* writes the entry's key into key_buffer, the value is converted (which may
\* overwrite key_buffer), and the result is stored under whatever key_buffer
\* holds then; the buffer is cleared after each entry.  A NULL conversion
\* result is handed to PyDict_SetItemString unchecked, which dereferences it.
DocumentTypeValueToPyObject_loop(doc, i, acc, kb) ==
  IF i > Len(doc) THEN PyRes(PyDict(acc), kb)
  ELSE LET r == DbValueToPyObject(doc[i].value, doc[i].key) IN
         IF r.obj \in {PyNULL, PyCRASH} THEN PyRes(PyCRASH, r.kb)
         ELSE DocumentTypeValueToPyObject_loop(
                doc, i + 1, PyDict_SetItemString(acc, r.kb, r.obj), "")

\* memset(key_buffer, 0, 512) precedes the loop.
DocumentTypeValueToPyObject(value, kb) ==
  DocumentTypeValueToPyObject_loop(value.s, 1, << >>, "")

DbStringToPyObject(value) == PyObj("str", value.n)

ObjectIdTypeValueToPyObject(value) == PyObj("ObjectId", value.n)

UTCDateTimeTypeValueToPyDate(value) == PyDateTime_FromTimestamp(value.n)

\* switch (ty): PLDB_VAL_BINARY has no case and takes the default branch.
DbValueToPyObject(value, kb) ==
  CASE value.tag = "Null" -> PyRes(PyNone, kb)
    [] value.tag = "Double" -> PyRes(PyObj("float", value.n), kb)
    [] value.tag = "Boolean" -> PyRes(PyObj("bool", value.n), kb)
    [] value.tag = "Int" -> PyRes(PyObj("int", value.n), kb)
    [] value.tag = "String" -> PyRes(DbStringToPyObject(value), kb)
    [] value.tag = "Array" -> ArrayTypeValueToPyObject(value, kb)
    [] value.tag = "Document" -> DocumentTypeValueToPyObject(value, kb)
    [] value.tag = "ObjectId" -> PyRes(ObjectIdTypeValueToPyObject(value), kb)
    [] value.tag = "UTCDateTime" -> PyRes(UTCDateTimeTypeValueToPyDate(value), kb)
    [] OTHER -> PyRes(PyNULL, kb)

-----------------------------------------------------------------------------
(* Python -> Value (PyDictToDbDocument, PyListToDbArray and the two        *)
(* dispatch functions).  A set function returns [ec, c]: the code it       *)
(* returns (negative: engine error, positive: Python error) and the        *)
(* container's children afterwards.                                        *)

SetRes(ec, c) == [ec |-> ec, c |-> c]

\* PLDB_arr_set_*(arr, index, ...) on an Array built by
\* PLDB_mk_arr_with_size: the slot at the (0-based) index gets the value.
PLDB_arr_set(items, index, value) == [items EXCEPT ![index + 1] = value]

\* PLDB_mk_arr_with_size(len): len slots, each holding Null until it is set.
PLDB_mk_arr_with_size(len) == [i \in 1..len |-> DbNull]

\* value.timestamp(): seconds since the epoch as a float; (int64_t) of it
\* truncates toward zero.  The datetime is kept as its millisecond count.
TruncDiv(a, b) == IF a >= 0 THEN a \div b ELSE -((-a) \div b)
PyTimestampAsInt64(value) == TruncDiv(value.n, 1000)

\* What the engine can do when a set function is handed the NULL child that
\* a failed nested conversion returned (PLDB_doc_set_doc(doc, key, NULL) and
\* the like): kill the process, return its error code, or return 0 having
\* set nothing.
SetNullOutcomes == { "crash", "error", "nothing" }

\* The code a set function returns for a NULL child; 2 stands for the
\* process having died inside the call.
SetNullChild(c, ub) ==
  CASE ub = "crash" -> SetRes(2, c)
    [] ub = "error" -> SetRes(-1, c)
    [] OTHER -> SetRes(0, c)

RECURSIVE PyDictToDbDocument(_, _)
RECURSIVE PyListToDbArray(_, _)
RECURSIVE PyDictToDbDocument_loop(_, _, _, _)
RECURSIVE PyListToDbArray_loop(_, _, _, _)

\* PyLong_AsLongLong(value): the int when it fits a long long; for an int
\* outside that range -1, with OverflowError left pending.  Such an int is
\* PyObj("bigint", n), n being its low 64 bits read as a signed integer.
PyLong_AsLongLong(value) == IF value.py = "bigint" THEN -1 ELSE value.n

\* PLDB_doc_set_doc / PLDB_doc_set_arr with the child a nested conversion
\* returned, which the caller does not check for NULL.
PyDictToDbDocument_set_child(doc, key, child, ub) ==
  IF child = DbCRASH THEN SetRes(2, doc)
  ELSE IF child = DbNULL THEN SetNullChild(doc, ub)
  ELSE SetRes(0, PLDB_doc_set(doc, key, child))

\* The if / else if chain, in the order of the source; a value matching no
\* branch falls through to `return 0` and sets nothing.  A datetime whose
\* timestamp() raises ("datetime_raises") returns 1.
PyDictToDbDocument_SetProperty(doc, key, value, ub) ==
  CASE value.py = "None" -> SetRes(0, PLDB_doc_set(doc, key, DbNull))
    [] value.py \in {"int", "bigint"} ->
         SetRes(0, PLDB_doc_set(doc, key, DbValue("Int", PyLong_AsLongLong(value))))
    [] value.py = "bool" ->
         SetRes(0, PLDB_doc_set(doc, key,
                     DbValue("Boolean", IF value.n = 1 THEN 1 ELSE 0)))
    [] value.py = "float" ->
         SetRes(0, PLDB_doc_set(doc, key, DbValue("Double", value.n)))
    [] value.py = "str" ->
         SetRes(0, PLDB_doc_set(doc, key, DbValue("String", value.n)))
    [] value.py = "capsule" -> SetRes(0, PLDB_doc_set(doc, key, value.s[1]))
    [] value.py = "dict" ->
         PyDictToDbDocument_set_child(doc, key, PyDictToDbDocument(value, ub), ub)
    [] value.py = "list" ->
         PyDictToDbDocument_set_child(doc, key, PyListToDbArray(value, ub), ub)
    [] value.py = "ObjectId" ->
         SetRes(0, PLDB_doc_set(doc, key, DbValue("ObjectId", value.n)))
    [] value.py = "Document" -> SetRes(0, PLDB_doc_set(doc, key, value.s[1]))
    [] value.py = "datetime" ->
         SetRes(0, PLDB_doc_set(doc, key,
                     DbValue("UTCDateTime", PyTimestampAsInt64(value))))
    [] value.py = "datetime_raises" -> SetRes(1, doc)
    [] OTHER -> SetRes(0, doc)

\* The loop's body after PyDictToDbDocument_SetProperty returned r:
\* ec < 0 and ec > 0 both free the result and return NULL.
PyDictToDbDocument_handle_ec(r, items, i, ub) ==
  IF r.ec = 2 THEN DbCRASH
  ELSE IF r.ec # 0 THEN DbNULL
  ELSE PyDictToDbDocument_loop(items, i + 1, r.c, ub)

\* for (i = 0; i < list_len; i++)
PyDictToDbDocument_loop(items, i, result_doc, ub) ==
  IF i > Len(items) THEN DbDoc(result_doc)
  ELSE PyDictToDbDocument_handle_ec(
         PyDictToDbDocument_SetProperty(result_doc, items[i].key,
                                        items[i].value, ub),
         items, i, ub)

PyDictToDbDocument(dict, ub) == PyDictToDbDocument_loop(dict.s, 1, << >>, ub)

PyListToDbArray_set_child(arr, index, child, ub) ==
  IF child = DbCRASH THEN SetRes(2, arr)
  ELSE IF child = DbNULL THEN SetNullChild(arr, ub)
  ELSE SetRes(0, PLDB_arr_set(arr, index, child))

PyListToDbArray_SetElement(arr, index, value, ub) ==
  CASE value.py = "None" -> SetRes(0, PLDB_arr_set(arr, index, DbNull))
    [] value.py \in {"int", "bigint"} ->
         SetRes(0, PLDB_arr_set(arr, index, DbValue("Int", PyLong_AsLongLong(value))))
    [] value.py = "bool" ->
         SetRes(0, PLDB_arr_set(arr, index,
                     DbValue("Boolean", IF value.n = 1 THEN 1 ELSE 0)))
    [] value.py = "float" ->
         SetRes(0, PLDB_arr_set(arr, index, DbValue("Double", value.n)))
    [] value.py = "str" ->
         SetRes(0, PLDB_arr_set(arr, index, DbValue("String", value.n)))
    [] value.py = "dict" ->
         PyListToDbArray_set_child(arr, index, PyDictToDbDocument(value, ub), ub)
    [] value.py = "list" ->
         PyListToDbArray_set_child(arr, index, PyListToDbArray(value, ub), ub)
    [] value.py = "ObjectId" ->
         SetRes(0, PLDB_arr_set(arr, index, DbValue("ObjectId", value.n)))
    [] value.py = "Document" -> SetRes(0, PLDB_arr_set(arr, index, value.s[1]))
    [] value.py = "datetime" ->
         SetRes(0, PLDB_arr_set(arr, index,
                     DbValue("UTCDateTime", PyTimestampAsInt64(value))))
    [] value.py = "datetime_raises" -> SetRes(1, arr)
    [] OTHER -> SetRes(0, arr)

PyListToDbArray_handle_ec(r, items, i, ub) ==
  IF r.ec = 2 THEN DbCRASH
  ELSE IF r.ec # 0 THEN DbNULL
  ELSE PyListToDbArray_loop(items, i + 1, r.c, ub)

PyListToDbArray_loop(items, i, result_arr, ub) ==
  IF i > Len(items) THEN DbArr(result_arr)
  ELSE PyListToDbArray_handle_ec(
         PyListToDbArray_SetElement(result_arr, i - 1, items[i], ub),
         items, i, ub)

PyListToDbArray(arr, ub) ==
  PyListToDbArray_loop(arr.s, 1, PLDB_mk_arr_with_size(Len(arr.s)), ub)

-----------------------------------------------------------------------------
(* JavaScript -> Value (js_value_to_DbValue and its helpers).              *)
(* A JavaScript value is [js, n, s]: js is what napi_typeof and            *)
(* Array.isArray tell apart ("undefined", "null", "boolean", "number",     *)
(* "string", "symbol", "array", "object"; a Date is an "object" whose      *)
(* class is kept apart as "date" and which has no own properties).         *)

JsVal(js, n) == [js |-> js, n |-> n, s |-> << >>]
JsObject(entries) == [js |-> "object", n |-> 0, s |-> entries]
JsArray(items) == [js |-> "array", n |-> 0, s |-> items]

\* napi_typeof
napi_typeof(value) ==
  IF value.js \in {"array", "object", "date"} THEN "napi_object"
  ELSE value.js

\* Number.isInteger on a number written in tenths.
js_value_isInteger(value) == value.n % 10 = 0

js_value_isArray(value) == value.js = "array"

js_value_to_StringTypeDbValue(value) == DbValue("String", value.n)

js_value_to_NumberTypeDbValue(value) ==
  IF js_value_isInteger(value)
    THEN DbValue("Int", TruncDiv(value.n, 10))
    ELSE DbValue("Double", value.n)

\* The own enumerable string-keyed properties (napi_get_all_property_names):
\* a Date has none.
JsOwnProperties(value) == IF value.js = "date" THEN << >> ELSE value.s

\* What PLDB_arr_push(arr, NULL) can do with the NULL item it is handed
\* when an element's conversion failed: kill the process, or push nothing.
PushNullOutcomes == { "crash", "nothing" }

RECURSIVE js_value_to_DbValue(_, _)
RECURSIVE js_value_to_DbArray_loop(_, _, _, _)
RECURSIVE js_value_to_DbDocument_loop(_, _, _, _)

\* for (i = 0; i < arr_len; i++): item_value is pushed unchecked.
js_value_to_DbArray_loop(items, i, arr, ub) ==
  IF i > Len(items) THEN DbArr(arr)
  ELSE LET item_value == js_value_to_DbValue(items[i], ub) IN
         IF item_value = DbCRASH THEN DbCRASH
         ELSE IF item_value = DbNULL
           THEN IF ub = "crash" THEN DbCRASH
                ELSE js_value_to_DbArray_loop(items, i + 1, arr, ub)
         ELSE js_value_to_DbArray_loop(items, i + 1, Append(arr, item_value), ub)

js_value_to_DbArray(value, ub) ==
  js_value_to_DbArray_loop(value.s, 1, << >>, ub)

\* for (i = 0; i < len; i++): a NULL dbValue goes to handle_err.
js_value_to_DbDocument_loop(props, i, result_doc, ub) ==
  IF i > Len(props) THEN DbDoc(result_doc)
  ELSE LET dbValue == js_value_to_DbValue(props[i].value, ub) IN
         IF dbValue \in {DbNULL, DbCRASH} THEN dbValue
         ELSE js_value_to_DbDocument_loop(
                props, i + 1, PLDB_doc_set(result_doc, props[i].key, dbValue), ub)

js_value_to_DbDocument(value, ub) ==
  IF napi_typeof(value) # "napi_object" THEN DbNULL
  ELSE js_value_to_DbDocument_loop(JsOwnProperties(value), 1, << >>, ub)

\* switch (tt): napi_null has no case and takes the default branch, which
\* throws "convert to DbValue failed".
js_value_to_DbValue(value, ub) ==
  CASE napi_typeof(value) = "undefined" -> DbNull
    [] napi_typeof(value) = "boolean" ->
         DbValue("Boolean", IF value.n = 1 THEN 1 ELSE 0)
    [] napi_typeof(value) = "string" -> js_value_to_StringTypeDbValue(value)
    [] napi_typeof(value) = "number" -> js_value_to_NumberTypeDbValue(value)
    [] napi_typeof(value) = "napi_object" ->
         IF js_value_isArray(value)
           THEN js_value_to_DbArray(value, ub)
           ELSE js_value_to_DbDocument(value, ub)
    [] OTHER -> DbNULL

-----------------------------------------------------------------------------
(* Input sets of the conversion specification.                             *)

Keys == { "a", "b", "c" }

\* Whether the last entry's key differs from the keys before it.
LastKeyIsNew(e) == \A i \in 1..(Len(e) - 1) : e[i].key # e[Len(e)].key

\* Sequences of at most n entries with distinct keys, values drawn from S.
RECURSIVE EntrySeqs(_, _)
EntrySeqs(S, n) ==
  IF n = 0 THEN { << >> }
  ELSE LET shorter == EntrySeqs(S, n - 1) IN
         shorter \cup
         { e \in { Append(q, DbEntry(k, x)) :
                     q \in { f \in shorter : Len(f) = n - 1 }, k \in Keys, x \in S } :
             LastKeyIsNew(e) }

RECURSIVE SeqsUpTo(_, _)
SeqsUpTo(S, n) ==
  IF n = 0 THEN { << >> }
  ELSE LET shorter == SeqsUpTo(S, n - 1) IN
         shorter \cup { Append(q, x) : q \in shorter, x \in S }

\* One Value of every scalar tag (two Booleans).
ScalarValues ==
  { DbNull, DbValue("Boolean", 0), DbValue("Boolean", 1), DbValue("Int", 7),
    DbValue("Double", 15), DbValue("String", 1), DbValue("Binary", 1),
    DbValue("ObjectId", 1), DbValue("UTCDateTime", 1500) }

\* What a top-level container may hold: scalars and small containers.
InnerValues ==
  ScalarValues \cup
  { DbDoc(<< >>), DbDoc(<< DbEntry("b", DbValue("Int", 7)) >>),
    DbArr(<< DbValue("Int", 7), DbValue("String", 1) >>),
    DbArr(<< DbDoc(<< DbEntry("b", DbNull) >>) >>) }

DocValues == { DbDoc(e) : e \in EntrySeqs(InnerValues, MaxDocLen) }
ArrValues == { DbArr(e) : e \in SeqsUpTo(InnerValues, MaxDocLen) }
ConvValues == ScalarValues \cup DocValues \cup ArrValues

\* Python values a dict or list may hold.  bytes is a type no branch of the
\* dispatch matches; int_subclass is an instance of a subclass of int other
\* than bool (PyLong_Check holds for it, PyLong_CheckExact does not);
\* datetime_raises is a datetime whose timestamp() raises.
PyInner ==
  { PyNone, PyObj("bool", 1), PyObj("bool", 0), PyObj("int", 7),
    PyObj("float", 15), PyObj("float", 20), PyObj("str", 1),
    PyObj("ObjectId", 1), PyObj("datetime", 1500), PyObj("datetime", 2000),
    PyObj("bytes", 1), PyObj("int_subclass", 7), PyObj("datetime_raises", 0),
    PyDict(<< DbEntry("b", PyNone) >>),
    PyDict(<< DbEntry("b", PyObj("datetime_raises", 0)) >>),
    PyList(<< PyNone, PyObj("int", 7) >>),
    PyList(<< PyObj("datetime", 1500) >>),
    PyList(<< PyObj("int", 7), PyObj("bytes", 1) >>),
    PyList(<< PyObj("int", 7), PyObj("datetime_raises", 0), PyObj("str", 1) >>) }

PyDicts == { PyDict(e) : e \in EntrySeqs(PyInner, MaxDocLen) }

\* JavaScript values an object or array may hold.
JsInner ==
  { JsVal("undefined", 0), JsVal("null", 0), JsVal("boolean", 1),
    JsVal("number", 70), JsVal("number", 15), JsVal("string", 1),
    JsVal("date", 1500), JsVal("symbol", 0),
    JsObject(<< DbEntry("b", JsVal("null", 0)) >>),
    JsObject(<< DbEntry("b", JsVal("undefined", 0)) >>),
    JsArray(<< JsVal("undefined", 0), JsVal("number", 70) >>),
    JsArray(<< JsVal("null", 0) >>) }

JsValues ==
  JsInner \cup { JsObject(e) : e \in EntrySeqs(JsInner, MaxDocLen) }
          \cup { JsArray(e) : e \in SeqsUpTo(JsInner, MaxDocLen) }

-----------------------------------------------------------------------------
(* Input sets of the cursor specifications.                                *)

\* Rows a query can return: Documents, one flat, one with a nested Document,
\* one holding a Binary field.
RowDocs ==
  { DbDoc(<< DbEntry("a", DbValue("Int", 7)) >>),
    DbDoc(<< DbEntry("a", DbValue("String", 1)),
             DbEntry("b", DbDoc(<< DbEntry("c", DbValue("Int", 7)) >>)) >>),
    DbDoc(<< DbEntry("a", DbValue("Binary", 0)) >>) }

ResultSets == SeqsUpTo(RowDocs, MaxRows)

\* Messages the engine's error channel can hold after a failure.
ErrorMessages == { "E_io", "E_corrupt" }

-----------------------------------------------------------------------------
(* The engine's cursor (DbHandle), from its documented contract.           *)

TerminalStates == { "Exhausted", "Failed" }

\* PLDB_handle_step without the check for a terminal state: a step on a
\* finished cursor fetches again.
PLDB_handle_step_restarts(hs, pos, rws, fail, msg, old) ==
  IF fail
    THEN [state |-> "Failed", pos |-> pos, ec |-> -1, msg |-> msg]
  ELSE IF pos < Len(rws)
    THEN [state |-> "HasRow", pos |-> pos + 1, ec |-> 0, msg |-> old]
  ELSE [state |-> "Exhausted", pos |-> pos, ec |-> 0, msg |-> old]

\* PLDB_handle_step on a cursor in state hs with pos rows fetched; `fail` is
\* whether the underlying fetch fails and msg the message it leaves.  The
\* result is the new state, the new position, the return code and the
\* error channel's message afterwards.
PLDB_handle_step(hs, pos, rws, fail, msg, old) ==
  IF hs \in TerminalStates
    THEN [state |-> hs, pos |-> pos, ec |-> 0, msg |-> old]
  ELSE IF fail
    THEN [state |-> "Failed", pos |-> pos, ec |-> -1, msg |-> msg]
  ELSE IF pos < Len(rws)
    THEN [state |-> "HasRow", pos |-> pos + 1, ec |-> 0, msg |-> old]
  ELSE [state |-> "Exhausted", pos |-> pos, ec |-> 0, msg |-> old]

PLDB_handle_state(hs) == hs

\* void PLDB_handle_get(handle, &val): the current row in HasRow; in any
\* other state nothing is written and val keeps the caller's NULL.
PLDB_handle_get(hs, pos, rws) ==
  IF hs = "HasRow" THEN rws[pos] ELSE DbNULL

DB_HANDLE_STATE_HAS_ROW == "HasRow"

-----------------------------------------------------------------------------
(* CollectionObject_find of the Python extension, one action per step.     *)

FindInit ==
  /\ pc = "enter" /\ handle = "NULL" /\ result = PyNULL /\ pyerr = "none"
  /\ ret = "none" /\ nstep = 0 /\ nget = 0 /\ nfree = 0 /\ nfreeNull = 0
  /\ stepFailed = FALSE /\ afterFail = 0

EngineInit ==
  /\ rows \in ResultSets
  /\ hstate = "None" /\ hpos = 0 /\ errmsg = "none"

EngineIdle ==
  /\ rows = << >> /\ hstate = "None" /\ hpos = 0 /\ errmsg = "none"

FindIdle ==
  /\ pc = "idle" /\ handle = "NULL" /\ result = PyNULL /\ pyerr = "none"
  /\ ret = "none" /\ nstep = 0 /\ nget = 0 /\ nfree = 0 /\ nfreeNull = 0
  /\ stepFailed = FALSE /\ afterFail = 0

JsRet(kind, val, st) == [kind |-> kind, val |-> val, st |-> st]

JsIdle ==
  /\ jsop = "none" /\ jsat = "None" /\ jsret = JsRet("none", DbNULL, "None")
  /\ jsexc = "none" /\ jscalls = 0

ConvIdle ==
  /\ ckind = "none" /\ cin = DbNULL /\ cout = DbNULL /\ cdone = FALSE

IterIdle ==
  /\ ithost = "none" /\ itdoc = << >> /\ itpos = 0 /\ itcalls = 0
  /\ itpc = "idle" /\ itlast = 0 /\ itacc = << >> /\ iterr = "none"

ApiOut(kind, val, msg) == [kind |-> kind, val |-> val, msg |-> msg]

ApiIdle ==
  /\ aop = "none" /\ aarg = DbNULL /\ aidx = 0
  /\ aeng = [called |-> FALSE, rc |-> 0, failed |-> FALSE]
  /\ aout = ApiOut("none", DbNULL, "none")

DbOut(kind, msg, n) == [kind |-> kind, msg |-> msg, n |-> n]

DbIdle ==
  /\ dhost = "none" /\ dself = "NULL" /\ dengine = "closed" /\ dalive = FALSE
  /\ dcol = FALSE /\ dop = "none" /\ darg = PyNone /\ dtrace = << >>
  /\ dout = DbOut("none", "none", 0) /\ ddict = << >> /\ dmsg = "none"
  /\ dncalls = 0 /\ nclose = 0

\* What find is called with: nothing it can parse, None, a dict, or
\* an object of another type.
FindArguments == { "unparsable", "None", "dict", "other" }

\* CHECK_DB_OPEND, PyArg_ParseTuple and the check of the query's type: each
\* returns NULL before any engine call.
Find_enter ==
  /\ pc = "enter"
  /\ \E opened \in BOOLEAN, arg \in FindArguments :
       IF opened /\ arg \in {"None", "dict"}
         THEN /\ pc' = "call"
              /\ UNCHANGED << pyerr, ret >>
         ELSE /\ pc' = "done"
              /\ ret' = "NULL"
              /\ pyerr' = IF ~opened THEN "database is not opened"
                          ELSE IF arg = "unparsable" THEN "TypeError"
                          ELSE "the second argument should be a dict"
  /\ UNCHANGED << engineVars, handle, result, nstep, nget, nfree, nfreeNull,
                  stepFailed, afterFail >>
  /\ UNCHANGED << jsVars, convVars, iterVars, apiVars, dbVars >>

\* ec = PLDB_find(...); if (ec < 0) goto handle_err; result = PyList_New(0);
Find_PLDB_find ==
  /\ pc = "call"
  /\ \E fail \in BOOLEAN, msg \in ErrorMessages :
       IF fail
         THEN /\ errmsg' = msg
              /\ pyerr' = msg
              /\ pc' = "handle_err"
              /\ UNCHANGED << hstate, handle, result >>
         ELSE /\ hstate' = "Ready"
              /\ handle' = "H"
              /\ result' = PyList(<< >>)
              /\ pc' = "first_step"
              /\ UNCHANGED << errmsg, pyerr >>
  /\ UNCHANGED << rows, hpos, ret, nstep, nget, nfree, nfreeNull, stepFailed,
                  afterFail >>
  /\ UNCHANGED << jsVars, convVars, iterVars, apiVars, dbVars >>

\* Find_step without the `if (ec < 0)` check: a failed step is not raised
\* and the function goes on.
Find_step_ignores_failure(at, next) ==
  /\ pc = at
  /\ \E fail \in BOOLEAN, msg \in ErrorMessages :
       LET r == PLDB_handle_step(hstate, hpos, rows, fail, msg, errmsg) IN
         /\ hstate' = r.state
         /\ hpos' = r.pos
         /\ errmsg' = r.msg
         /\ nstep' = nstep + 1
         /\ afterFail' = IF stepFailed THEN afterFail + 1 ELSE afterFail
         /\ stepFailed' = (stepFailed \/ r.ec < 0)
         /\ pc' = next
         /\ UNCHANGED pyerr
  /\ UNCHANGED << rows, handle, result, ret, nget, nfree, nfreeNull >>
  /\ UNCHANGED << jsVars, convVars, iterVars, apiVars, dbVars >>

\* ec = PLDB_handle_step(handle); if (ec < 0) { PyErr_SetString; goto handle_err; }
\* `next` is where the function goes when the step succeeds.
Find_step(at, next) ==
  /\ pc = at
  /\ \E fail \in BOOLEAN, msg \in ErrorMessages :
       LET r == PLDB_handle_step(hstate, hpos, rows, fail, msg, errmsg) IN
         /\ hstate' = r.state
         /\ hpos' = r.pos
         /\ errmsg' = r.msg
         /\ nstep' = nstep + 1
         /\ afterFail' = IF stepFailed THEN afterFail + 1 ELSE afterFail
         /\ IF r.ec < 0
              THEN /\ pyerr' = r.msg
                   /\ stepFailed' = TRUE
                   /\ pc' = "handle_err"
              ELSE /\ pc' = next
                   /\ UNCHANGED << pyerr, stepFailed >>
  /\ UNCHANGED << rows, handle, result, ret, nget, nfree, nfreeNull >>
  /\ UNCHANGED << jsVars, convVars, iterVars, apiVars, dbVars >>

Find_first_step == Find_step("first_step", "loop")

Find_next_step == Find_step("next_step", "loop")

\* The body of while (PLDB_handle_state(handle) == DB_HANDLE_STATE_HAS_ROW):
\* get, convert, assert(tmp_obj != NULL), PyList_Append.  A NULL tmp_obj
\* fails the assertion (with NDEBUG it reaches Py_DECREF(NULL) instead);
\* a conversion that died has killed the process already.
Find_loop_body ==
  /\ pc = "loop"
  /\ PLDB_handle_state(hstate) = DB_HANDLE_STATE_HAS_ROW
  /\ LET val == PLDB_handle_get(hstate, hpos, rows)
         tmp_obj == DbValueToPyObject(val, "").obj
     IN /\ nget' = nget + 1
        /\ afterFail' = IF stepFailed THEN afterFail + 1 ELSE afterFail
        /\ IF tmp_obj \in {PyNULL, PyCRASH}
             THEN /\ pc' = "crashed"
                  /\ UNCHANGED << result, pyerr >>
             ELSE \E appendFails \in BOOLEAN :
                    IF appendFails
                      THEN /\ pyerr' = "MemoryError"
                           /\ pc' = "handle_err"
                           /\ UNCHANGED result
                      ELSE /\ result' = PyList(Append(result.s, tmp_obj))
                           /\ pc' = "next_step"
                           /\ UNCHANGED pyerr
  /\ UNCHANGED << rows, hstate, hpos, errmsg, handle, ret, nstep, nfree,
                  nfreeNull, stepFailed >>
  /\ UNCHANGED << jsVars, convVars, iterVars, apiVars, dbVars >>

\* The loop condition is false: goto handle_success.
Find_loop_exit ==
  /\ pc = "loop"
  /\ PLDB_handle_state(hstate) # DB_HANDLE_STATE_HAS_ROW
  /\ pc' = "handle_success"
  /\ UNCHANGED << engineVars, handle, result, pyerr, ret, nstep, nget, nfree,
                  nfreeNull, stepFailed, afterFail >>
  /\ UNCHANGED << jsVars, convVars, iterVars, apiVars, dbVars >>

\* handle_err: PLDB_free_handle(handle); Py_DECREF(result); PLDB_free_doc(doc);
\* return NULL;  Py_DECREF of a NULL result dereferences NULL.
Find_handle_err ==
  /\ pc = "handle_err"
  /\ IF handle = "NULL"
       THEN /\ nfreeNull' = nfreeNull + 1
            /\ UNCHANGED << nfree, hstate >>
       ELSE /\ nfree' = nfree + 1
            /\ hstate' = "Released"
            /\ UNCHANGED nfreeNull
  /\ IF result = PyNULL
       THEN /\ pc' = "crashed"
            /\ UNCHANGED ret
       ELSE /\ pc' = "done"
            /\ ret' = "NULL"
  /\ UNCHANGED << rows, hpos, errmsg, handle, result, pyerr, nstep, nget,
                  stepFailed, afterFail >>
  /\ UNCHANGED << jsVars, convVars, iterVars, apiVars, dbVars >>

\* handle_success: PLDB_free_doc(doc); return result;
Find_handle_success ==
  /\ pc = "handle_success"
  /\ pc' = "done"
  /\ ret' = "list"
  /\ UNCHANGED << engineVars, handle, result, pyerr, nstep, nget, nfree,
                  nfreeNull, stepFailed, afterFail >>
  /\ UNCHANGED << jsVars, convVars, iterVars, apiVars, dbVars >>

Next ==
  \/ Find_enter
  \/ Find_PLDB_find
  \/ Find_first_step
  \/ Find_loop_body
  \/ Find_loop_exit
  \/ Find_next_step
  \/ Find_handle_err
  \/ Find_handle_success

Init ==
  EngineInit /\ FindInit /\ JsIdle /\ ConvIdle /\ IterIdle /\ ApiIdle /\ DbIdle

Spec == Init /\ [][Next]_vars

-----------------------------------------------------------------------------
(* The Node.js addon's cursor functions, each called from JavaScript with  *)
(* one argument; isExternal is whether that argument is an external (the   *)
(* handle js_find returned).  A function that throws returns NULL.         *)

JsCall(op) ==
  /\ jscalls < MaxJsCalls
  /\ jscalls' = jscalls + 1
  /\ jsop' = op
  /\ jsat' = hstate
  /\ UNCHANGED << findVars, convVars, iterVars, apiVars, dbVars, rows >>

\* STD_CALL(PLDB_find(db, name_buffer, query_doc, &handle)); the handle is
\* wrapped in an external.
js_find ==
  /\ hstate = "None"
  /\ JsCall("find")
  /\ \E fail \in BOOLEAN, msg \in ErrorMessages :
       IF fail
         THEN /\ errmsg' = msg
              /\ jsexc' = msg
              /\ jsret' = JsRet("NULL", DbNULL, "None")
              /\ UNCHANGED << hstate, hpos >>
         ELSE /\ hstate' = "Ready"
              /\ jsexc' = "none"
              /\ jsret' = JsRet("external", DbNULL, "None")
              /\ UNCHANGED << errmsg, hpos >>

BadArgumentMessage == "The first argument should be Database"

\* The check_type guard every handle function starts with.
JsBadArgument ==
  /\ jsexc' = BadArgumentMessage
  /\ jsret' = JsRet("NULL", DbNULL, "None")
  /\ UNCHANGED << hstate, hpos, errmsg >>

\* STD_CALL(PLDB_handle_step(handle)); return NULL;
js_handle_step ==
  /\ JsCall("step")
  /\ \E isExternal \in BOOLEAN, fail \in BOOLEAN, msg \in ErrorMessages :
       IF ~isExternal THEN JsBadArgument
       ELSE /\ hstate # "None"
            /\ LET r == PLDB_handle_step(hstate, hpos, rows, fail, msg, errmsg) IN
                 /\ hstate' = r.state
                 /\ hpos' = r.pos
                 /\ errmsg' = r.msg
                 /\ jsexc' = IF r.ec < 0 THEN r.msg ELSE "none"
                 /\ jsret' = JsRet("NULL", DbNULL, "None")

\* int state = PLDB_handle_state(handle); returned as an int32.
js_handle_state ==
  /\ JsCall("state")
  /\ \E isExternal \in BOOLEAN :
       IF ~isExternal THEN JsBadArgument
       ELSE /\ hstate # "None"
            /\ jsexc' = "none"
            /\ jsret' = JsRet("int32", DbNULL, PLDB_handle_state(hstate))
            /\ UNCHANGED << hstate, hpos, errmsg >>

\* DbValue* value = NULL; PLDB_handle_get(handle, &value); the value is
\* wrapped in an external and returned, whatever the cursor's state.
js_handle_get ==
  /\ JsCall("get")
  /\ \E isExternal \in BOOLEAN :
       IF ~isExternal THEN JsBadArgument
       ELSE /\ hstate # "None"
            /\ jsexc' = "none"
            /\ jsret' = JsRet("external", PLDB_handle_get(hstate, hpos, rows), "None")
            /\ UNCHANGED << hstate, hpos, errmsg >>

NextHandle ==
  \/ js_find
  \/ js_handle_step
  \/ js_handle_state
  \/ js_handle_get

InitHandle ==
  EngineInit /\ FindIdle /\ JsIdle /\ ConvIdle /\ IterIdle /\ ApiIdle /\ DbIdle

SpecHandle == InitHandle /\ [][NextHandle]_vars

-----------------------------------------------------------------------------
(* The conversion layer: each behaviour draws one input and converts it.   *)

ConvKinds ==
  { "DbValueToPyObject", "RoundTrip", "PyDictToDbDocument",
    "js_value_to_DbValue" }

ConvInputs(kind) ==
  CASE kind = "DbValueToPyObject" -> ConvValues
    [] kind = "RoundTrip" -> DocValues
    [] kind = "PyDictToDbDocument" -> PyDicts
    [] kind = "js_value_to_DbValue" -> JsValues

InitConv ==
  /\ EngineIdle /\ FindIdle /\ JsIdle /\ IterIdle /\ ApiIdle /\ DbIdle
  /\ ckind \in ConvKinds
  /\ cin \in ConvInputs(ckind)
  /\ cout = DbNULL
  /\ cdone = FALSE

Converted(out) ==
  /\ ~cdone
  /\ cdone' = TRUE
  /\ cout' = out
  /\ UNCHANGED << ckind, cin, engineVars, findVars, jsVars, iterVars, apiVars,
                  dbVars >>

\* Value -> Python.
Conv_DbValueToPyObject ==
  /\ ckind = "DbValueToPyObject"
  /\ Converted(DbValueToPyObject(cin, "").obj)

\* Value -> Python -> Value, for a Document (the Python extension converts
\* host values to Values only through PyDictToDbDocument).
Conv_RoundTrip ==
  /\ ckind = "RoundTrip"
  /\ LET host == DbValueToPyObject(cin, "").obj IN
       \E ub \in SetNullOutcomes :
         Converted(IF host \in {PyNULL, PyCRASH} THEN DbCRASH
                   ELSE PyDictToDbDocument(host, ub))

\* Python dict -> Document.
Conv_PyDictToDbDocument ==
  /\ ckind = "PyDictToDbDocument"
  /\ \E ub \in SetNullOutcomes : Converted(PyDictToDbDocument(cin, ub))

\* JavaScript -> Value.
Conv_js_value_to_DbValue ==
  /\ ckind = "js_value_to_DbValue"
  /\ \E ub \in PushNullOutcomes : Converted(js_value_to_DbValue(cin, ub))

NextConv ==
  \/ Conv_DbValueToPyObject
  \/ Conv_RoundTrip
  \/ Conv_PyDictToDbDocument
  \/ Conv_js_value_to_DbValue

SpecConv == InitConv /\ [][NextConv]_vars

-----------------------------------------------------------------------------
(* The Document iterator (DbDocumentIter) and its two consumers: the loop  *)
(* of DocumentTypeValueToPyObject and the addon's js_doc_iter_next, which  *)
(* JavaScript calls once per entry.                                        *)

MaxIterCalls == 5   \* PLDB_doc_iter_next calls per behaviour

\* A key of 512 bytes or more: it does not fit key_buffer / KEY_BUFFER.
LongKey == "key_of_512_bytes"

IterKeys == { "a", "b", LongKey }

IterValues ==
  { DbValue("Int", 7), DbValue("String", 1), DbNull,
    DbDoc(<< DbEntry("c", DbValue("Int", 7)) >>) }

\* Documents of at most MaxDocLen entries with distinct keys.
IterDocs ==
  { << >> } \cup { << DbEntry(k, x) >> : k \in IterKeys, x \in IterValues }
  \cup UNION { { << DbEntry(k1, x1), DbEntry(k2, x2) >> :
                   k2 \in IterKeys \ {k1}, x1 \in IterValues,
                   x2 \in {DbValue("Int", 7), DbNull} } : k1 \in IterKeys }

\* PLDB_doc_iter_next from its documented contract: a positive return with
\* the entry's key and Value and the iterator advanced; 0 when no entry is
\* left; a negative return when the key does not fit the buffer, nothing
\* being consumed.
PLDB_doc_iter_next(doc, pos) ==
  IF pos >= Len(doc) THEN [rc |-> 0, pos |-> pos]
  ELSE IF doc[pos + 1].key = LongKey THEN [rc |-> -1, pos |-> pos]
  ELSE [rc |-> 1, pos |-> pos + 1]

IterCall(host) ==
  /\ ithost = host
  /\ itpc = "next"
  /\ itcalls < MaxIterCalls
  /\ itcalls' = itcalls + 1
  /\ UNCHANGED << ithost, itdoc >>
  /\ UNCHANGED << engineVars, findVars, jsVars, convVars, apiVars, dbVars >>

\* while (PLDB_doc_iter_next(iter, key_buffer, 512, &value_tmp)): every
\* non-zero return, a negative one included, enters the body.
DocumentTypeValueToPyObject_next ==
  /\ IterCall("py")
  /\ LET r == PLDB_doc_iter_next(itdoc, itpos) IN
       /\ itpos' = r.pos
       /\ itlast' = r.rc
       /\ itpc' = IF r.rc # 0 THEN "body" ELSE "done"
  /\ UNCHANGED << itacc, iterr >>

\* What the body can do with a value_tmp the iterator did not write
\* (uninitialized in the first round, freed in a later one): die in
\* DbValueToPyObject, or convert whatever it points to.
DanglingValueOutcomes == { "crash", "garbage" }

\* The loop body: convert value_tmp, PyDict_SetItemString under key_buffer
\* (on failure: result = NULL, goto result), free value_tmp, clear the
\* buffer.
DocumentTypeValueToPyObject_body ==
  /\ ithost = "py"
  /\ itpc = "body"
  /\ IF itlast < 0
       THEN \E ub \in DanglingValueOutcomes :
              IF ub = "crash"
                THEN /\ itpc' = "crashed"
                     /\ UNCHANGED << itacc, iterr >>
                ELSE /\ itacc' = PyDict_SetItemString(itacc, "", PyObj("garbage", 0))
                     /\ itpc' = "next"
                     /\ UNCHANGED iterr
       ELSE LET r == DbValueToPyObject(itdoc[itpos].value, itdoc[itpos].key) IN
              IF r.obj \in {PyNULL, PyCRASH}
                THEN /\ itpc' = "crashed"
                     /\ UNCHANGED << itacc, iterr >>
                ELSE \E setFails \in BOOLEAN :
                       IF setFails
                         THEN /\ iterr' = "MemoryError"
                              /\ itpc' = "done"
                              /\ UNCHANGED itacc
                         ELSE /\ itacc' = PyDict_SetItemString(itacc, r.kb, r.obj)
                              /\ itpc' = "next"
                              /\ UNCHANGED iterr
  /\ UNCHANGED << ithost, itdoc, itpos, itcalls, itlast >>
  /\ UNCHANGED << engineVars, findVars, jsVars, convVars, apiVars, dbVars >>

\* js_doc_iter_next: copied_size < 0 throws "buffer not enough", 0 returns
\* undefined, a positive size returns [key, value].
js_doc_iter_next ==
  /\ IterCall("js")
  /\ \E isExternal \in BOOLEAN :
       IF ~isExternal
         THEN /\ iterr' = "Wrong arguments"
              /\ UNCHANGED << itpos, itlast, itacc, itpc >>
         ELSE LET r == PLDB_doc_iter_next(itdoc, itpos) IN
                /\ itpos' = r.pos
                /\ itlast' = r.rc
                /\ iterr' = IF r.rc < 0 THEN "buffer not enough" ELSE "none"
                /\ itacc' = IF r.rc > 0 THEN Append(itacc, itdoc[r.pos]) ELSE itacc
                /\ UNCHANGED itpc

NextIter ==
  \/ DocumentTypeValueToPyObject_next
  \/ DocumentTypeValueToPyObject_body
  \/ js_doc_iter_next

InitIter ==
  /\ EngineIdle /\ FindIdle /\ JsIdle /\ ConvIdle /\ ApiIdle /\ DbIdle
  /\ ithost \in {"py", "js"}
  /\ itdoc \in IterDocs
  /\ itpos = 0 /\ itcalls = 0 /\ itpc = "next" /\ itlast = 0
  /\ itacc = << >> /\ iterr = "none"

SpecIter == InitIter /\ [][NextIter]_vars

-----------------------------------------------------------------------------
(* The addon's value, container and database functions, one call per       *)
(* behaviour.  aeng is [called, rc, failed]: whether the engine function   *)
(* was reached, the integer it returned, and whether that is its failure   *)
(* indicator (a negative code, or a NULL handle).                          *)

EngRet(rc, failed) == [called |-> TRUE, rc |-> rc, failed |-> failed]
EngNone == [called |-> FALSE, rc |-> 0, failed |-> FALSE]

\* The undefined a function returns as a NULL napi_value.
ApiUndefined == ApiOut("undefined", DbNULL, "none")
ApiThrow(msg) == ApiOut("throw", DbNULL, msg)
\* A failed assert(status == napi_ok) / CHECK_STAT: the process is gone.
ApiAbort == ApiOut("abort", DbNULL, "none")

\* Values and containers the functions are called on.
ApiValues ==
  ScalarValues \cup
  { DbValue("String", 0), DbDoc(<< >>), DbDoc(<< DbEntry("b", DbValue("Int", 7)) >>),
    DbArr(<< >>), DbArr(<< DbValue("Int", 7) >>),
    DbArr(<< DbValue("Int", 7), DbValue("String", 1) >>) }

ApiArrays == { v \in ApiValues : v.tag = "Array" }

\* Integers an engine function can return: a failure, zero, a positive.
EngineReturns == { -1, 0, 1 }

\* PLDB_arr_get from its documented contract: 0 and the Value for an index
\* inside the Array, a negative code outside.
PLDB_arr_get(arr, index) ==
  IF index >= 0 /\ index < Len(arr.s)
    THEN [rc |-> 0, val |-> arr.s[index + 1]]
    ELSE [rc |-> -1, val |-> DbNULL]

\* The typed accessors from their documented contract: the payload when the
\* Value has the tag asked for, a negative code when it has another one.
\* PLDB_value_get_bool returns the boolean itself, PLDB_value_get_string_utf8
\* the length of the string (a string's number stands for its length).
PLDB_value_get(value, tag) ==
  IF value.tag # tag THEN [rc |-> -1, val |-> DbNULL]
  ELSE IF tag \in {"Boolean", "String"} THEN [rc |-> value.n, val |-> value]
  ELSE [rc |-> 0, val |-> value]

\* napi_get_value_uint32 of a JavaScript number: a negative number wraps
\* around (-1 is 4294967295); the wrapped index is kept as the largest
\* integer at hand, above every Array length like the real one.
napi_get_value_uint32(n) == IF n < 0 THEN 2147483647 + n + 1 ELSE n

\* One call: the function, what it was called on, and what came of it.
\* assert(status == napi_ok) follows every call into the host runtime: a
\* call that fails kills the process before the engine is reached.
ApiCall(op, arg, idx, eng, out) ==
  /\ aop = "none"
  /\ aop' = op
  /\ aarg' = arg
  /\ aidx' = idx
  /\ \E napi_ok \in BOOLEAN :
       IF napi_ok THEN aeng' = eng /\ aout' = out
       ELSE aeng' = EngNone /\ aout' = ApiAbort
  /\ UNCHANGED << engineVars, findVars, jsVars, convVars, iterVars, dbVars >>

\* js_array_get: the return code of PLDB_arr_get is not read, out_val is
\* dropped, and NULL is returned.
js_array_get ==
  \E arr \in ApiArrays, index \in -1..MaxDocLen, args \in {"ok", "bad0", "bad1"} :
    CASE args = "bad0" ->
           ApiCall("js_array_get", arr, index, EngNone,
                   ApiThrow("the first argument should be an external object"))
      [] args = "bad1" ->
           ApiCall("js_array_get", arr, index, EngNone,
                   ApiThrow("the second argument should be a number"))
      [] OTHER ->
           LET r == PLDB_arr_get(arr, napi_get_value_uint32(index)) IN
             ApiCall("js_array_get", arr, index, EngRet(r.rc, r.rc < 0), ApiUndefined)

\* The shape shared by the typed accessors: check_type, the engine call,
\* the test of its return ("nonzero": != 0, "negative": < 0), the message
\* thrown when the test holds.
ValueGet(op, tag, test, msg) ==
  \E val \in ApiValues, isExternal \in BOOLEAN :
    IF ~isExternal THEN ApiCall(op, val, 0, EngNone, ApiThrow("Wrong arguments"))
    ELSE LET r == PLDB_value_get(val, tag) IN
           ApiCall(op, val, 0, EngRet(r.rc, r.rc < 0),
                   IF (IF test = "nonzero" THEN r.rc # 0 ELSE r.rc < 0)
                     THEN ApiThrow(msg)
                   ELSE ApiOut("value", r.val, "none"))

\* if (PLDB_value_get_i64(val, &out) != 0) throw
js_value_get_i64 ==
  ValueGet("js_value_get_i64", "Int", "nonzero", "DbValue is not an integer")

\* if (result < 0) throw
js_value_get_bool ==
  ValueGet("js_value_get_bool", "Boolean", "negative", "value is not a boolean")

\* status = PLDB_value_get_double(val, &num); assert(status == napi_ok);
\* the failed assertion kills the process; compiled with NDEBUG the
\* function returns num, which is still 0.
js_value_get_double ==
  \E val \in ApiValues, isExternal \in BOOLEAN, ndebug \in BOOLEAN :
    IF ~isExternal
      THEN ApiCall("js_value_get_double", val, 0, EngNone, ApiThrow("Wrong arguments"))
    ELSE LET r == PLDB_value_get(val, "Double") IN
           ApiCall("js_value_get_double", val, 0, EngRet(r.rc, r.rc < 0),
                   IF r.rc = 0 THEN ApiOut("value", r.val, "none")
                   ELSE IF ndebug THEN ApiOut("value", DbValue("Double", 0), "none")
                   ELSE ApiAbort)

js_value_get_array ==
  ValueGet("js_value_get_array", "Array", "negative", "value is not an array")

js_value_get_doc ==
  ValueGet("js_value_get_doc", "Document", "negative", "value is not a array")

js_value_get_object_id ==
  ValueGet("js_value_get_object_id", "ObjectId", "negative",
           "value is not an ObjectId")

js_value_get_string ==
  ValueGet("js_value_get_string", "String", "negative",
           "DbValue is not a string")

\* js_doc_set: the return code of PLDB_doc_set is dropped.
js_doc_set ==
  \E doc \in { v \in ApiValues : v.tag = "Document" }, ec \in EngineReturns,
     args \in {"ok", "bad0", "bad1", "bad2"} :
    CASE args = "bad0" ->
           ApiCall("js_doc_set", doc, 0, EngNone,
                   ApiThrow("the first argument should be an external object"))
      [] args = "bad1" ->
           ApiCall("js_doc_set", doc, 0, EngNone,
                   ApiThrow("the second argument should be a string"))
      [] args = "bad2" ->
           ApiCall("js_doc_set", doc, 0, EngNone,
                   ApiThrow("the third argument should be an external object"))
      [] OTHER -> ApiCall("js_doc_set", doc, 0, EngRet(ec, ec < 0), ApiUndefined)

\* js_mk_object_id: a NULL oid goes to clean and result, still NULL, is
\* returned; nothing is thrown.
js_mk_object_id ==
  \E isExternal \in BOOLEAN, isNull \in BOOLEAN :
    IF ~isExternal
      THEN ApiCall("js_mk_object_id", DbNULL, 0, EngNone,
                   ApiThrow("the first argument should be an external object"))
    ELSE ApiCall("js_mk_object_id", DbNULL, 0, EngRet(0, isNull),
                 IF isNull THEN ApiUndefined
                 ELSE ApiOut("value", DbValue("ObjectId", 1), "none"))

\* STD_CALL(PLDB_create_collection(db, name_buffer)): ec < 0 throws.
js_create_collection ==
  \E ec \in EngineReturns, msg \in ErrorMessages, args \in {"ok", "bad0", "bad1"} :
    CASE args = "bad0" ->
           ApiCall("js_create_collection", DbNULL, 0, EngNone, ApiThrow("Wrong arguments 0"))
      [] args = "bad1" ->
           ApiCall("js_create_collection", DbNULL, 0, EngNone, ApiThrow("Wrong arguments 1"))
      [] OTHER ->
           ApiCall("js_create_collection", DbNULL, 0, EngRet(ec, ec < 0),
                   IF ec < 0 THEN ApiThrow(msg) ELSE ApiUndefined)

\* The flags of PLDB_start_transaction: PLDB_TRANS_AUTO, _READ, _WRITE.
TransactionFlags == 0..2

\* js_start_transaction: if (ec != 0) throw.
js_start_transaction ==
  \E ec \in EngineReturns, msg \in ErrorMessages, flags \in TransactionFlags,
     args \in {"ok", "bad0", "bad1"} :
    CASE args = "bad0" ->
           ApiCall("js_start_transaction", DbNULL, flags, EngNone,
                   ApiThrow("Wrong arguments 0"))
      [] args = "bad1" ->
           ApiCall("js_start_transaction", DbNULL, flags, EngNone,
                   ApiThrow("Wrong arguments 1"))
      [] OTHER ->
           ApiCall("js_start_transaction", DbNULL, flags, EngRet(ec, ec < 0),
                   IF ec # 0 THEN ApiThrow(msg) ELSE ApiUndefined)

NextApi ==
  \/ js_array_get
  \/ js_value_get_i64
  \/ js_value_get_bool
  \/ js_value_get_double
  \/ js_value_get_array
  \/ js_value_get_doc
  \/ js_value_get_object_id
  \/ js_value_get_string
  \/ js_doc_set
  \/ js_mk_object_id
  \/ js_create_collection
  \/ js_start_transaction

InitApi ==
  EngineIdle /\ FindIdle /\ JsIdle /\ ConvIdle /\ IterIdle /\ ApiIdle /\ DbIdle

SpecApi == InitApi /\ [][NextApi]_vars

-----------------------------------------------------------------------------
(* Database and Collection objects.  One action is one host method call,   *)
(* from entry to return; dtrace lists, in order, the calls it makes on the *)
(* database (PLDB_start_transaction, PLDB_insert, PLDB_close, ...), the     *)
(* reads of PLDB_error_msg, and the calls that make, get from and free the *)
(* temporary Documents and Values of the call.  The PLDB_doc_set_* calls   *)
(* of a conversion that succeed are not listed.                            *)

MaxDbCalls == 3     \* host method calls per behaviour

\* #define PLDB_TRANS_AUTO 0
PLDB_TRANS_AUTO == 0

\* One engine-facing call: the function, the handle or object it was given
\* ("db": the open Database, "dangling": the Database after PLDB_close,
\* "NULL", "garbage": an uninitialized pointer, "doc" / "query" / "update":
\* a temporary Document, "value": an extracted Value, "-": none), its
\* integer argument and what it returned.
Call(fn, h, n, rc) == [fn |-> fn, h |-> h, args |-> << >>, n |-> n, rc |-> rc]

\* A call that is handed Documents: args names each pointer, "doc" for a
\* Document a conversion returned and "NULL" for a null pointer.
DocCall(fn, h, args, rc) == [fn |-> fn, h |-> h, args |-> args, n |-> 0, rc |-> rc]

ReadErrorMsg == Call("PLDB_error_msg", "-", 0, 0)

\* The message a failing engine function leaves in the error channel names
\* the function.
EngineMessage(fn) == fn

\* What an engine function does with a handle that is not an open Database
\* (NULL, freed or uninitialized): the process dies, or the call fails.
BadHandleOutcomes == { "crash", "error" }

\* The outcomes of one call of an engine function on handle h.
EngineOutcomes(h) ==
  IF h = "db" THEN { [rc |-> r, crash |-> FALSE] : r \in EngineReturns }
  ELSE { [rc |-> IF o = "error" THEN -1 ELSE 0, crash |-> o = "crash"] :
           o \in BadHandleOutcomes }

\* The pointer a method reads from the binding object.
HandleArg == IF dself = "NULL" THEN "NULL"
             ELSE IF dengine = "closed" THEN "dangling"
             ELSE "db"

\* What a method call leaves behind when it changes nothing.
DbRes ==
  [trace |-> << >>, out |-> DbOut("return", "none", 0), self |-> dself,
   engine |-> dengine, col |-> dcol, dict |-> << >>, msg |-> dmsg]

DbRaise(msg) == [DbRes EXCEPT !.out = DbOut("raise", msg, 0)]

\* The PLDB_close calls of a trace.
RECURSIVE CountCalls(_, _)
CountCalls(trace, fn) ==
  IF trace = << >> THEN 0
  ELSE (IF trace[1].fn = fn THEN 1 ELSE 0) + CountCalls(Tail(trace), fn)

\* One host method call and everything it does.
DbCall(op, arg, r) ==
  /\ dalive
  /\ dout.kind \notin {"crash", "abort"}
  /\ dncalls < MaxDbCalls
  /\ dop' = op
  /\ darg' = arg
  /\ dtrace' = r.trace
  /\ dout' = r.out
  /\ dself' = r.self
  /\ dengine' = r.engine
  /\ dcol' = r.col
  /\ ddict' = r.dict
  /\ dmsg' = r.msg
  /\ dncalls' = dncalls + 1
  /\ nclose' = nclose + CountCalls(r.trace, "PLDB_close")
  /\ UNCHANGED << dhost, dalive >>
  /\ UNCHANGED << engineVars, findVars, jsVars, convVars, iterVars, apiVars >>

\* POLO_CALL with an error path that rolls the transaction back before it
\* raises.
POLO_CALL_rolls_back(fn, h, n, e) ==
  IF e.crash
    THEN [DbRes EXCEPT !.trace = << Call(fn, h, n, 0) >>,
                       !.out = DbOut("crash", "none", 0)]
  ELSE IF e.rc < 0
    THEN [DbRes EXCEPT !.trace = << Call(fn, h, n, e.rc), ReadErrorMsg,
                                    Call("PLDB_rollback", h, 0, 0) >>,
                       !.out = DbOut("raise", EngineMessage(fn), 0),
                       !.msg = EngineMessage(fn)]
  ELSE [DbRes EXCEPT !.trace = << Call(fn, h, n, e.rc) >>]

\* ec = PLDB_x(self->db, ...); if (ec < 0) { PyErr_SetString(PyExc_Exception,
\* PLDB_error_msg()); return NULL; } Py_RETURN_NONE;  e is what the engine
\* does with the call.
POLO_CALL(fn, h, n, e) ==
  IF e.crash
    THEN [DbRes EXCEPT !.trace = << Call(fn, h, n, 0) >>,
                       !.out = DbOut("crash", "none", 0)]
  ELSE IF e.rc < 0
    THEN [DbRes EXCEPT !.trace = << Call(fn, h, n, e.rc), ReadErrorMsg >>,
                       !.out = DbOut("raise", EngineMessage(fn), 0),
                       !.msg = EngineMessage(fn)]
  ELSE [DbRes EXCEPT !.trace = << Call(fn, h, n, e.rc) >>]

\* ---- Python: polodb.Database ----

\* Arguments of startTransaction: none, an int, or an object "i" rejects.
PyFlagArgs ==
  { PyObj("noargs", 0), PyObj("str", 1) } \cup
  { PyObj("int", f) : f \in {-1, 0, 1, 2, 7} }

\* PyArg_ParseTuple(args, "i", &flags) fails on anything but one int; the
\* flags go to the engine as they are, self->db is not checked.
Py_DatabaseObject_start_transaction ==
  /\ dhost = "py"
  /\ \E arg \in PyFlagArgs, e \in EngineOutcomes(HandleArg) :
       DbCall("startTransaction", arg,
              IF arg.py # "int" THEN DbRaise("TypeError")
              ELSE POLO_CALL("PLDB_start_transaction", HandleArg, arg.n, e))

Py_DatabaseObject_commit ==
  /\ dhost = "py"
  /\ \E e \in EngineOutcomes(HandleArg) :
       DbCall("commit", PyNone, POLO_CALL("PLDB_commit", HandleArg, 0, e))

Py_DatabaseObject_rollback ==
  /\ dhost = "py"
  /\ \E e \in EngineOutcomes(HandleArg) :
       DbCall("rollback", PyNone, POLO_CALL("PLDB_rollback", HandleArg, 0, e))

\* if (self->db == NULL) raise; PLDB_close(self->db); self->db = NULL;
Py_DatabaseObject_close ==
  /\ dhost = "py"
  /\ DbCall("close", PyNone,
            IF dself = "NULL" THEN DbRaise("database is not opened")
            ELSE [DbRes EXCEPT !.trace = << Call("PLDB_close", HandleArg, 0, 0) >>,
                               !.self = "NULL",
                               !.engine = "closed"])

\* tp_dealloc, run when the last reference is dropped; a Collection holds a
\* reference to its Database, so it is gone by then.
Py_DatabaseObject_dealloc ==
  /\ dhost = "py"
  /\ dalive
  /\ dout.kind \notin {"crash", "abort"}
  /\ dalive' = FALSE
  /\ dcol' = FALSE
  /\ dop' = "dealloc"
  /\ darg' = PyNone
  /\ dout' = DbOut("return", "none", 0)
  /\ ddict' = << >>
  /\ IF dself # "NULL"
       THEN /\ dtrace' = << Call("PLDB_close", HandleArg, 0, 0) >>
            /\ nclose' = nclose + 1
            /\ dself' = "NULL"
            /\ dengine' = "closed"
       ELSE /\ dtrace' = << >>
            /\ UNCHANGED << nclose, dself, dengine >>
  /\ UNCHANGED << dhost, dmsg, dncalls >>
  /\ UNCHANGED << engineVars, findVars, jsVars, convVars, iterVars, apiVars >>

\* ---- Node.js addon: open / close / startTransaction / commit / rollback
\* ---- on the external js_open returned ("js_ext"), and the Database class
\* ---- wrapping the engine's Database ("js_obj") ----

\* ec = PLDB_x(db, ...); if (<test>) { napi_throw(PLDB_error_msg()); return NULL; }
\* test is "nonzero" (ec != 0) or "negative" (ec < 0).  The message thrown is
\* the channel's: after a positive return no function has written to it.
JsEngineCall(fn, h, n, e, test) ==
  IF e.crash
    THEN [DbRes EXCEPT !.trace = << Call(fn, h, n, 0) >>,
                       !.out = DbOut("crash", "none", 0)]
  ELSE IF e.rc < 0 \/ (test = "nonzero" /\ e.rc # 0)
    THEN LET left == IF e.rc < 0 THEN EngineMessage(fn) ELSE dmsg IN
           [DbRes EXCEPT !.trace = << Call(fn, h, n, e.rc), ReadErrorMsg >>,
                         !.out = DbOut("raise", left, 0),
                         !.msg = left]
  ELSE [DbRes EXCEPT !.trace = << Call(fn, h, n, e.rc) >>]

\* Arguments of startTransaction in JavaScript.
JsFlagArgs ==
  { PyObj("undefined", 0), PyObj("string", 1) } \cup
  { PyObj("number", f) : f \in {-1, 0, 1, 2, 7} }

\* js_start_transaction(db, flags): flags must be a number.
Db_js_start_transaction ==
  /\ dhost = "js_ext"
  /\ \E arg \in JsFlagArgs, e \in EngineOutcomes(HandleArg) :
       DbCall("startTransaction", arg,
              IF arg.py # "number" THEN DbRaise("Wrong arguments 1")
              ELSE JsEngineCall("PLDB_start_transaction", HandleArg, arg.n, e,
                                "nonzero"))

Db_js_commit ==
  /\ dhost = "js_ext"
  /\ \E e \in EngineOutcomes(HandleArg) :
       DbCall("commit", PyNone,
              JsEngineCall("PLDB_commit", HandleArg, 0, e, "nonzero"))

Db_js_rollback ==
  /\ dhost = "js_ext"
  /\ \E e \in EngineOutcomes(HandleArg) :
       DbCall("rollback", PyNone,
              JsEngineCall("PLDB_rollback", HandleArg, 0, e, "nonzero"))

\* What PLDB_close does with a Database it has freed before, or with an
\* uninitialized pointer: the process dies, or nothing is seen.
DoubleCloseOutcomes == { "crash", "nothing" }

\* js_close: PLDB_close(db) on the pointer the external holds, every time.
Db_js_close ==
  /\ dhost = "js_ext"
  /\ \E o \in DoubleCloseOutcomes :
       DbCall("close", PyNone,
              [DbRes EXCEPT !.trace = << Call("PLDB_close", HandleArg, 0, 0) >>,
                            !.engine = "closed",
                            !.out = IF HandleArg # "db" /\ o = "crash"
                                      THEN DbOut("crash", "none", 0)
                                      ELSE DbOut("return", "none", 0)])

\* napi_unwrap(env, this_ptr, &db); assert(status == napi_ok);  After
\* napi_remove_wrap the call fails: the assertion kills the process, and a
\* build with NDEBUG goes on with db uninitialized.
JsUnwrap(ndebug) ==
  IF dself # "NULL" THEN HandleArg
  ELSE IF ndebug THEN "garbage"
  ELSE "abort"

\* DatabaseObject_start_transaction: undefined is PLDB_TRANS_AUTO, a number
\* is forwarded as napi_get_value_int32 reads it, anything else throws
\* PLDB_error_msg() although no engine call was made.
Js_DatabaseObject_start_transaction ==
  /\ dhost = "js_obj"
  /\ \E arg \in JsFlagArgs, ndebug \in BOOLEAN :
       LET db == JsUnwrap(ndebug) IN
         \E e \in EngineOutcomes(db) :
           DbCall("startTransaction", arg,
                  IF db = "abort" THEN [DbRes EXCEPT !.out = DbOut("abort", "none", 0)]
                  ELSE IF arg.py = "undefined"
                    THEN JsEngineCall("PLDB_start_transaction", db,
                                      PLDB_TRANS_AUTO, e, "negative")
                  ELSE IF arg.py = "number"
                    THEN JsEngineCall("PLDB_start_transaction", db, arg.n, e,
                                      "negative")
                  ELSE [DbRes EXCEPT !.trace = << ReadErrorMsg >>,
                                     !.out = DbOut("raise", dmsg, 0)])

Js_DatabaseObject_commit ==
  /\ dhost = "js_obj"
  /\ \E ndebug \in BOOLEAN :
       LET db == JsUnwrap(ndebug) IN
         \E e \in EngineOutcomes(db) :
           DbCall("commit", PyNone,
                  IF db = "abort" THEN [DbRes EXCEPT !.out = DbOut("abort", "none", 0)]
                  ELSE JsEngineCall("PLDB_commit", db, 0, e, "negative"))

Js_DatabaseObject_rollback ==
  /\ dhost = "js_obj"
  /\ \E ndebug \in BOOLEAN :
       LET db == JsUnwrap(ndebug) IN
         \E e \in EngineOutcomes(db) :
           DbCall("rollback", PyNone,
                  IF db = "abort" THEN [DbRes EXCEPT !.out = DbOut("abort", "none", 0)]
                  ELSE JsEngineCall("PLDB_rollback", db, 0, e, "negative"))

\* DatabaseObject_close: napi_remove_wrap(env, this_ptr, &result);
\* assert(status == napi_ok); PLDB_close(result);  Removing the wrap also
\* removes its finalizer.
Js_DatabaseObject_close ==
  /\ dhost = "js_obj"
  /\ \E ndebug \in BOOLEAN, o \in DoubleCloseOutcomes :
       LET db == JsUnwrap(ndebug) IN
         DbCall("close", PyNone,
                IF db = "abort" THEN [DbRes EXCEPT !.out = DbOut("abort", "none", 0)]
                ELSE [DbRes EXCEPT
                        !.trace = << Call("PLDB_close", db, 0, 0) >>,
                        !.self = "NULL",
                        !.engine = "closed",
                        !.out = IF db # "db" /\ o = "crash"
                                  THEN DbOut("crash", "none", 0)
                                  ELSE DbOut("return", "none", 0)])

\* Garbage collection of the JavaScript object.  The external of js_open
\* was created without a finalizer; the Database class's wrap carries
\* DatabaseFinalizer, which closes the Database while the wrap exists.
Js_finalize ==
  /\ dhost \in {"js_ext", "js_obj"}
  /\ dalive
  /\ dout.kind \notin {"crash", "abort"}
  /\ dalive' = FALSE
  /\ dop' = "finalize"
  /\ darg' = PyNone
  /\ dout' = DbOut("return", "none", 0)
  /\ ddict' = << >>
  /\ IF dhost = "js_obj" /\ dself # "NULL"
       THEN /\ dtrace' = << Call("PLDB_close", HandleArg, 0, 0) >>
            /\ nclose' = nclose + 1
            /\ dself' = "NULL"
            /\ dengine' = "closed"
       ELSE /\ dtrace' = << >>
            /\ UNCHANGED << nclose, dself, dengine >>
  /\ UNCHANGED << dhost, dcol, dmsg, dncalls >>
  /\ UNCHANGED << engineVars, findVars, jsVars, convVars, iterVars, apiVars >>

\* ---- Python: polodb.Collection and the methods of Database that make one ----

\* The engine's PLDB_insert on a Document with these entries: a failure
\* returns a negative code; a Document that has no "_id" gets a generated
\* ObjectId under "_id" and the call returns a positive code; otherwise 0.
PLDB_insert(entries, fail) ==
  IF fail THEN [rc |-> -1, doc |-> entries]
  ELSE IF KeyIndex(entries, "_id", 1) # 0 THEN [rc |-> 0, doc |-> entries]
  ELSE [rc |-> 1, doc |-> Append(entries, DbEntry("_id", DbValue("ObjectId", 1)))]

\* PLDB_doc_get(doc, key, &out_val): the Value under the key (an owning
\* copy), NULL when the key is absent, a negative code on failure.
PLDB_doc_get(entries, key, fail) ==
  LET i == KeyIndex(entries, key, 1) IN
    IF fail THEN [rc |-> -1, val |-> DbNULL]
    ELSE IF i = 0 THEN [rc |-> 0, val |-> DbNULL]
    ELSE [rc |-> 0, val |-> entries[i].value]

\* Whether converting the value leaves a Python exception pending: its
\* timestamp() raises, it is an int PyLong_AsLongLong cannot hold, or a
\* value inside it does.
RECURSIVE PyErr_Occurred(_)
PyErr_Occurred(value) ==
  \/ value.py \in {"datetime_raises", "bigint"}
  \/ value.py = "dict" /\ \E i \in 1..Len(value.s) : PyErr_Occurred(value.s[i].value)
  \/ value.py = "list" /\ \E i \in 1..Len(value.s) : PyErr_Occurred(value.s[i])

\* The code that ends the loop of PyDictToDbDocument: 0 when every item was
\* set, else what PyDictToDbDocument_SetProperty returned for the item that
\* stopped it (r).
RECURSIVE PyDictToDbDocument_exit(_, _, _, _)
PyDictToDbDocument_exit_or(r, items, i, ub) ==
  IF r.ec # 0 THEN r.ec ELSE PyDictToDbDocument_exit(items, i + 1, r.c, ub)

PyDictToDbDocument_exit(items, i, result_doc, ub) ==
  IF i > Len(items) THEN 0
  ELSE PyDictToDbDocument_exit_or(
         PyDictToDbDocument_SetProperty(result_doc, items[i].key,
                                        items[i].value, ub),
         items, i, ub)

\* dicts handed to insert, find, update and delete: empty, flat, holding an
\* "_id", holding a datetime whose timestamp() raises (the conversion
\* returns NULL), holding a dict that holds one (the nested conversion
\* returns NULL), holding bytes, holding an int above the long long range
\* (2^64 + 5).
DbDicts ==
  { PyDict(<< >>),
    PyDict(<< DbEntry("a", PyObj("int", 7)) >>),
    PyDict(<< DbEntry("_id", PyObj("int", 7)), DbEntry("a", PyObj("str", 1)) >>),
    PyDict(<< DbEntry("a", PyObj("datetime_raises", 0)) >>),
    PyDict(<< DbEntry("a", PyDict(<< DbEntry("b", PyObj("datetime_raises", 0)) >>)) >>),
    PyDict(<< DbEntry("a", PyObj("bytes", 1)) >>),
    PyDict(<< DbEntry("a", PyObj("bigint", 5)) >>) }

\* PyDictToDbDocument of each of these dicts under each outcome of a NULL
\* child: the Document returned, the code that ended the loop, and whether
\* an exception is left pending.
DbConversions ==
  [dict \in DbDicts |->
     [ub \in SetNullOutcomes |->
        [doc |-> PyDictToDbDocument(dict, ub),
         ec |-> PyDictToDbDocument_exit(dict.s, 1, << >>, ub),
         raised |-> PyErr_Occurred(dict)]]]

\* One top-level PyDictToDbDocument(dict) as the caller sees it: the
\* Document returned (DbNULL, DbCRASH) and the calls made for the result
\* Document, named as.  PyDict_Items returning NULL (itemsOk false) returns
\* NULL and leaves the Document PLDB_mk_doc made; ec < 0 frees it and then
\* reads the message; ec > 0 frees it.
PyDictToDbDocument_as(cv, as, itemsOk) ==
  IF ~itemsOk
    THEN [doc |-> DbNULL, calls |-> << Call("PLDB_mk_doc", as, 0, 0) >>,
          err |-> "MemoryError"]
  ELSE IF cv.ec = 0 \/ cv.ec = 2
    THEN [doc |-> cv.doc,
          calls |-> << Call("PLDB_mk_doc", as, 0, 0) >>,
          err |-> IF cv.raised THEN "conversion error" ELSE "none"]
  ELSE IF cv.ec < 0
    THEN [doc |-> DbNULL,
          calls |-> << Call("PLDB_mk_doc", as, 0, 0),
                       Call("PLDB_doc_set", as, 0, cv.ec),
                       Call("PLDB_free_doc", as, 0, 0), ReadErrorMsg >>,
          err |-> EngineMessage("PLDB_doc_set")]
  ELSE [doc |-> DbNULL,
        calls |-> << Call("PLDB_mk_doc", as, 0, 0),
                     Call("PLDB_free_doc", as, 0, 0) >>,
        err |-> "conversion error"]

PyDictToDbDocument_call(dict, as, ub, itemsOk) ==
  PyDictToDbDocument_as(DbConversions[dict][ub], as, itemsOk)

\* The outcomes of converting obj that a call can meet: what a NULL child
\* does matters to a dict that holds a dict or a list, and whether
\* PyDict_Items succeeds matters to a dict.
SetNullOutcomesOf(obj) ==
  IF obj.py = "dict" /\ \E i \in 1..Len(obj.s) : obj.s[i].value.py \in {"dict", "list"}
    THEN SetNullOutcomes
    ELSE {"nothing"}

PyDict_ItemsOutcomes(obj) == IF obj.py = "dict" THEN BOOLEAN ELSE {TRUE}

\* CHECK_DB_OPEND
CHECK_DB_OPEND == dself # "NULL"

\* What a Python method returns to the interpreter: a non-NULL result while
\* an exception is pending is a result with an exception set.
PyReturn(n, err) ==
  IF err = "none" THEN DbOut("return", "none", n)
  ELSE DbOut("return_exc_set", err, n)

\* Arguments of createCollection and collection: none, a str naming a
\* collection (1 exists, 2 does not), an object that is not a str.
PyNameArgs ==
  { PyObj("noargs", 0), PyObj("str", 1), PyObj("str", 2), PyObj("int", 7) }

\* PyUnicode_AsUTF8 of an object that is not a str returns NULL, which goes
\* to the engine as the name.
Py_DatabaseObject_create_collection ==
  /\ dhost = "py"
  /\ \E arg \in PyNameArgs, e \in EngineOutcomes("db"), o \in BadHandleOutcomes :
       DbCall("createCollection", arg,
              IF ~CHECK_DB_OPEND THEN DbRaise("database is not opened")
              ELSE IF arg.py = "noargs" THEN DbRaise("TypeError")
              ELSE LET c == DocCall("PLDB_create_collection", "db",
                                    << IF arg.py = "str" THEN "name" ELSE "NULL" >>,
                                    IF arg.py = "str" THEN e.rc ELSE -1)
                   IN IF arg.py # "str" /\ o = "crash"
                        THEN [DbRes EXCEPT !.trace = << c >>,
                                           !.out = DbOut("crash", "none", 0)]
                      ELSE IF c.rc < 0
                        THEN [DbRes EXCEPT
                                !.trace = << c, ReadErrorMsg >>,
                                !.out = DbOut("raise",
                                          EngineMessage("PLDB_create_collection"), 0),
                                !.msg = EngineMessage("PLDB_create_collection")]
                      ELSE [DbRes EXCEPT
                              !.trace = << c >>,
                              !.col = TRUE,
                              !.out = DbOut("collection", "none", arg.n)])

\* What the uninitialized `name` of DatabaseObject_collection can hold when
\* PyArg_ParseTuple failed and the function went on: a pointer whose
\* dereference kills the process, an object that is not a str, or a str.
UninitializedNameOutcomes == { "crash", "not_str", "str" }

\* DatabaseObject_collection: `if (PyArg_ParseTuple(args, "O", &name)) return
\* NULL;` returns NULL, with no exception set, when the arguments parse;
\* when they do not, the function goes on with `name` uninitialized.
\* self->db is not checked.
Py_DatabaseObject_collection ==
  /\ dhost = "py"
  /\ \E arg \in PyNameArgs, u \in UninitializedNameOutcomes,
        e \in EngineOutcomes(HandleArg) :
       DbCall("collection", arg,
              IF arg.py # "noargs"
                THEN [DbRes EXCEPT !.out = DbOut("null_no_exception", "none", 0)]
              ELSE IF u = "crash"
                THEN [DbRes EXCEPT !.out = DbOut("crash", "none", 0)]
              ELSE IF u = "not_str"
                THEN DbRaise("this first argument should be a string")
              ELSE LET c == DocCall("PLDB_get_collection_meta_by_name", HandleArg,
                                    << "name" >>, e.rc)
                   IN IF e.crash
                        THEN [DbRes EXCEPT !.trace = << c >>,
                                           !.out = DbOut("crash", "none", 0)]
                      ELSE IF e.rc < 0
                        THEN [DbRes EXCEPT
                                !.trace = << c, ReadErrorMsg >>,
                                !.out = DbOut("raise",
                                  EngineMessage("PLDB_get_collection_meta_by_name"), 0),
                                !.msg = EngineMessage("PLDB_get_collection_meta_by_name")]
                      ELSE [DbRes EXCEPT
                              !.trace = << c >>,
                              !.col = TRUE,
                              !.out = DbOut("collection", "none", 0)])

FreeDoc(as) == Call("PLDB_free_doc", as, 0, 0)

\* The message the channel holds after a conversion: the conversion's when
\* an engine call of it failed, else the one it held before.
MsgAfter(cv) == IF cv.err = EngineMessage("PLDB_doc_set") THEN cv.err ELSE dmsg

\* if (ec > 0) { PLDB_doc_get(doc, "_id", &new_id); ...
\* PyDict_SetItemString(obj, "_id", py_id) ... } of CollectionObject_insert:
\* g is what PLDB_doc_get returned.  new_id is not released on any path.
Insert_set_id(obj, cv, c, g, setFails) ==
  IF g.rc < 0
    THEN [DbRes EXCEPT
            !.trace = cv.calls \o << c, Call("PLDB_doc_get", "doc", 0, g.rc),
                                     ReadErrorMsg, FreeDoc("doc") >>,
            !.out = DbOut("raise", EngineMessage("PLDB_doc_get"), 0),
            !.msg = EngineMessage("PLDB_doc_get"),
            !.dict = obj.s]
  ELSE IF setFails
    THEN [DbRes EXCEPT
            !.trace = cv.calls \o << c, Call("PLDB_doc_get", "doc", 0, g.rc),
                                     FreeDoc("doc") >>,
            !.out = DbOut("raise", "can not set '_id' for dict", 0),
            !.msg = MsgAfter(cv),
            !.dict = obj.s]
  ELSE [DbRes EXCEPT
          !.trace = cv.calls \o << c, Call("PLDB_doc_get", "doc", 0, g.rc),
                                   FreeDoc("doc") >>,
          !.out = PyReturn(0, cv.err),
          !.msg = MsgAfter(cv),
          !.dict = PyDict_SetItemString(obj.s, "_id",
                                        DbValueToPyObject(g.val, "").obj)]

\* ec = PLDB_insert(...) and what follows it in CollectionObject_insert: ins
\* is what PLDB_insert returned and made of the Document.
Insert_PLDB_insert(obj, cv, ins, getFails, setFails) ==
  IF ins.rc < 0
    THEN [DbRes EXCEPT
            !.trace = cv.calls \o
                      << DocCall("PLDB_insert", "db", << "doc" >>, ins.rc),
                         FreeDoc("doc"), ReadErrorMsg >>,
            !.out = DbOut("raise", EngineMessage("PLDB_insert"), 0),
            !.msg = EngineMessage("PLDB_insert"),
            !.dict = obj.s]
  ELSE IF ins.rc > 0
    THEN Insert_set_id(obj, cv, DocCall("PLDB_insert", "db", << "doc" >>, ins.rc),
                       PLDB_doc_get(ins.doc, "_id", getFails), setFails)
  ELSE [DbRes EXCEPT
          !.trace = cv.calls \o
                    << DocCall("PLDB_insert", "db", << "doc" >>, ins.rc),
                       FreeDoc("doc") >>,
          !.out = PyReturn(0, cv.err),
          !.msg = MsgAfter(cv),
          !.dict = obj.s]

\* doc = PyDictToDbDocument(obj); if (doc == NULL) return NULL; and the rest
\* of CollectionObject_insert: cv is what the conversion did.
Insert_converted(obj, cv, fail, getFails, setFails) ==
  IF cv.doc = DbCRASH
    THEN [DbRes EXCEPT !.trace = cv.calls, !.out = DbOut("crash", "none", 0),
                       !.dict = obj.s]
  ELSE IF cv.doc = DbNULL
    THEN [DbRes EXCEPT !.trace = cv.calls,
                       !.out = DbOut("raise", cv.err, 0),
                       !.msg = MsgAfter(cv),
                       !.dict = obj.s]
  ELSE Insert_PLDB_insert(obj, cv, PLDB_insert(cv.doc.s, fail), getFails, setFails)

\* CollectionObject_insert(self, (obj,)).  fail, getFails: whether
\* PLDB_insert and PLDB_doc_get fail; setFails: whether PyDict_SetItemString
\* does.
CollectionObject_insert(obj, ub, itemsOk, fail, getFails, setFails) ==
  IF ~CHECK_DB_OPEND THEN DbRaise("database is not opened")
  ELSE IF obj.py = "noargs" THEN DbRaise("TypeError")
  ELSE IF obj.py # "dict" THEN DbRaise("the second argument should be a dict")
  ELSE Insert_converted(obj, PyDictToDbDocument_call(obj, "doc", ub, itemsOk),
                        fail, getFails, setFails)

InsertArgs == { PyObj("noargs", 0), PyObj("int", 7) } \cup DbDicts

Py_CollectionObject_insert ==
  /\ dhost = "py"
  /\ dcol
  /\ \E arg \in InsertArgs, fail, getFails, setFails \in BOOLEAN :
     \E ub \in SetNullOutcomesOf(arg), itemsOk \in PyDict_ItemsOutcomes(arg) :
       DbCall("insert", arg,
              CollectionObject_insert(arg, ub, itemsOk, fail, getFails, setFails))

MaxFound == 1       \* most rows a find of this specification returns

\* The cursor loop of find from its i-th PLDB_handle_step on, over n rows;
\* failAt is the step that fails (0: none fails).
RECURSIVE Find_steps(_, _, _)
Find_steps(i, n, failAt) ==
  IF failAt = i
    THEN << Call("PLDB_handle_step", "handle", 0, -1), ReadErrorMsg >>
  ELSE IF i > n
    THEN << Call("PLDB_handle_step", "handle", 0, 0) >>
  ELSE << Call("PLDB_handle_step", "handle", 0, 0),
          Call("PLDB_handle_get", "handle", 0, 0),
          Call("PLDB_free_value", "value", 0, 0) >> \o Find_steps(i + 1, n, failAt)

\* What a Document pointer is in a call: the Document, or NULL.
DocArg(doc, as) == IF doc = DbNULL THEN "NULL" ELSE as

\* CollectionObject_find from `ec = PLDB_find(...)` on: cv is what the
\* conversion of the query did; its Document is not checked for NULL.
\* handle_err runs Py_DECREF(result) on the NULL result of a failed
\* PLDB_find.
Find_converted(cv, fail, n, failAt) ==
  IF cv.doc = DbCRASH
    THEN [DbRes EXCEPT !.trace = cv.calls, !.out = DbOut("crash", "none", 0)]
  ELSE IF fail
    THEN [DbRes EXCEPT
            !.trace = cv.calls \o
                      << DocCall("PLDB_find", "db", << DocArg(cv.doc, "query") >>, -1),
                         ReadErrorMsg, Call("PLDB_free_handle", "NULL", 0, 0) >>,
            !.out = DbOut("crash", "none", 0),
            !.msg = EngineMessage("PLDB_find")]
  ELSE IF failAt # 0
    THEN [DbRes EXCEPT
            !.trace = cv.calls \o
                      << DocCall("PLDB_find", "db", << DocArg(cv.doc, "query") >>, 0) >>
                      \o Find_steps(1, n, failAt) \o
                      << Call("PLDB_free_handle", "handle", 0, 0),
                         FreeDoc(DocArg(cv.doc, "query")) >>,
            !.out = DbOut("raise", EngineMessage("PLDB_handle_step"), 0),
            !.msg = EngineMessage("PLDB_handle_step")]
  ELSE [DbRes EXCEPT
          !.trace = cv.calls \o
                    << DocCall("PLDB_find", "db", << DocArg(cv.doc, "query") >>, 0) >>
                    \o Find_steps(1, n, 0) \o
                    << FreeDoc(DocArg(cv.doc, "query")) >>,
          !.out = PyReturn(n, cv.err),
          !.msg = MsgAfter(cv)]

\* CollectionObject_find(self, (dict_obj,)) up to the conversion of the query.
CollectionObject_find(dict_obj, ub, itemsOk, fail, n, failAt) ==
  IF ~CHECK_DB_OPEND THEN DbRaise("database is not opened")
  ELSE IF dict_obj.py = "noargs" THEN DbRaise("TypeError")
  ELSE IF dict_obj.py \notin {"None", "dict"}
    THEN DbRaise("the second argument should be a dict")
  ELSE Find_converted(
         IF dict_obj.py = "None" THEN [doc |-> DbNULL, calls |-> << >>, err |-> "none"]
         ELSE PyDictToDbDocument_call(dict_obj, "query", ub, itemsOk),
         fail, n, failAt)

QueryArgs == { PyObj("noargs", 0), PyObj("int", 7), PyNone } \cup DbDicts

Py_CollectionObject_find ==
  /\ dhost = "py"
  /\ dcol
  /\ \E arg \in QueryArgs, fail \in BOOLEAN, n \in 0..MaxFound :
       \E failAt \in 0..(n + 1), ub \in SetNullOutcomesOf(arg),
          itemsOk \in PyDict_ItemsOutcomes(arg) :
         DbCall("find", arg,
                CollectionObject_find(arg, ub, itemsOk, fail, n, failAt))

\* The calls that free the Documents of update and delete: each is freed
\* when its pointer is not NULL.
FreeIfNotNull(doc, as) == IF doc = DbNULL THEN << >> ELSE << FreeDoc(as) >>

\* What the engine returns for a call handed the Document doc: e when it
\* is a Document, and for the NULL a function does not accept the error o
\* stands for.
RcFor(doc, e, o) == IF doc = DbNULL THEN (IF o = "error" THEN -1 ELSE 0) ELSE e.rc

\* count = PLDB_update(...) and the label result: of CollectionObject_update;
\* cq, cu are what the two conversions did, e what PLDB_update does.
Update_PLDB_update(cq, cu, e, o) ==
  IF cu.doc = DbCRASH
    THEN [DbRes EXCEPT !.trace = cq.calls \o cu.calls,
                       !.out = DbOut("crash", "none", 0)]
  ELSE IF cu.doc = DbNULL /\ o = "crash"
    THEN [DbRes EXCEPT
            !.trace = cq.calls \o cu.calls \o
                      << DocCall("PLDB_update", "db",
                                 << DocArg(cq.doc, "query"), "NULL" >>, RcFor(cu.doc, e, o)) >>,
            !.out = DbOut("crash", "none", 0)]
  ELSE IF RcFor(cu.doc, e, o) < 0
    THEN [DbRes EXCEPT
            !.trace = cq.calls \o cu.calls \o
                      << DocCall("PLDB_update", "db",
                                 << DocArg(cq.doc, "query"),
                                    DocArg(cu.doc, "update") >>, RcFor(cu.doc, e, o)),
                         ReadErrorMsg >> \o
                      FreeIfNotNull(cq.doc, "query") \o
                      FreeIfNotNull(cu.doc, "update"),
            !.out = DbOut("raise", EngineMessage("PLDB_update"), 0),
            !.msg = EngineMessage("PLDB_update")]
  ELSE [DbRes EXCEPT
          !.trace = cq.calls \o cu.calls \o
                    << DocCall("PLDB_update", "db",
                               << DocArg(cq.doc, "query"),
                                  DocArg(cu.doc, "update") >>, RcFor(cu.doc, e, o)) >> \o
                    FreeIfNotNull(cq.doc, "query") \o
                    FreeIfNotNull(cu.doc, "update"),
          !.out = PyReturn(RcFor(cu.doc, e, o),
                          IF cq.err # "none" THEN cq.err ELSE cu.err),
          !.msg = MsgAfter(cu)]

\* CollectionObject_update after the query was converted: the check of the
\* update's type and its conversion.  Neither Document is checked for NULL.
Update_converted(cq, update_dict_obj, ub, itemsOk, e, o) ==
  IF cq.doc = DbCRASH
    THEN [DbRes EXCEPT !.trace = cq.calls, !.out = DbOut("crash", "none", 0)]
  ELSE IF update_dict_obj.py # "dict"
    THEN [DbRes EXCEPT
            !.trace = cq.calls \o FreeIfNotNull(cq.doc, "query"),
            !.out = DbOut("raise", "the third argument should be a dict", 0),
            !.msg = MsgAfter(cq)]
  ELSE Update_PLDB_update(
         cq, PyDictToDbDocument_call(update_dict_obj, "update", ub, itemsOk),
         e, o)

\* CollectionObject_update(self, (query_dict_obj, update_dict_obj)).  e is
\* what PLDB_update does; o is what it does when the update is NULL.
CollectionObject_update(query_dict_obj, update_dict_obj, ub, itemsOk, e, o) ==
  IF ~CHECK_DB_OPEND THEN DbRaise("database is not opened")
  ELSE IF query_dict_obj.py = "noargs" THEN DbRaise("TypeError")
  ELSE IF query_dict_obj.py \notin {"None", "dict"}
    THEN DbRaise("the second argument should be a dict or None")
  ELSE Update_converted(
         IF query_dict_obj.py = "None" THEN [doc |-> DbNULL, calls |-> << >>, err |-> "none"]
         ELSE PyDictToDbDocument_call(query_dict_obj, "query", ub, itemsOk),
         update_dict_obj, ub, itemsOk, e, o)

UpdateArgs ==
  { PyObj("noargs", 0) } \cup
  { PyList(<< q, u >>) :
      q \in { PyNone, PyObj("int", 7),
              PyDict(<< DbEntry("a", PyObj("int", 7)) >>),
              PyDict(<< DbEntry("a", PyObj("datetime_raises", 0)) >>) },
      u \in { PyObj("int", 7),
              PyDict(<< DbEntry("a", PyObj("int", 7)) >>),
              PyDict(<< DbEntry("a", PyObj("datetime_raises", 0)) >>) } }

Py_CollectionObject_update ==
  /\ dhost = "py"
  /\ dcol
  /\ \E arg \in UpdateArgs, e \in EngineOutcomes("db"), o \in BadHandleOutcomes :
     \E ub \in UNION { SetNullOutcomesOf(arg.s[i]) : i \in 1..Len(arg.s) }
                 \cup {"nothing"},
        itemsOk \in UNION { PyDict_ItemsOutcomes(arg.s[i]) : i \in 1..Len(arg.s) }
                      \cup {TRUE} :
       DbCall("update", arg,
              IF arg.py = "noargs"
                THEN CollectionObject_update(arg, arg, ub, itemsOk, e, o)
                ELSE CollectionObject_update(arg.s[1], arg.s[2], ub, itemsOk, e, o))

\* ec = PLDB_delete(...) and the label result: of CollectionObject_delete;
\* cv is what the conversion did, e what PLDB_delete does.
Delete_converted(cv, e, o) ==
  IF cv.doc = DbCRASH
    THEN [DbRes EXCEPT !.trace = cv.calls, !.out = DbOut("crash", "none", 0)]
  ELSE IF cv.doc = DbNULL /\ o = "crash"
    THEN [DbRes EXCEPT
            !.trace = cv.calls \o
                      << DocCall("PLDB_delete", "db", << "NULL" >>, RcFor(cv.doc, e, o)) >>,
            !.out = DbOut("crash", "none", 0)]
  ELSE IF RcFor(cv.doc, e, o) < 0
    THEN [DbRes EXCEPT
            !.trace = cv.calls \o
                      << DocCall("PLDB_delete", "db",
                                 << DocArg(cv.doc, "query") >>, RcFor(cv.doc, e, o)),
                         ReadErrorMsg >> \o FreeIfNotNull(cv.doc, "query"),
            !.out = DbOut("raise", EngineMessage("PLDB_delete"), 0),
            !.msg = EngineMessage("PLDB_delete")]
  ELSE [DbRes EXCEPT
          !.trace = cv.calls \o
                    << DocCall("PLDB_delete", "db",
                               << DocArg(cv.doc, "query") >>, RcFor(cv.doc, e, o)) >> \o
                    FreeIfNotNull(cv.doc, "query"),
          !.out = PyReturn(RcFor(cv.doc, e, o), cv.err),
          !.msg = MsgAfter(cv)]

\* CollectionObject_delete(self, (query_obj,)): the Document is not checked
\* for NULL before PLDB_delete, whose query is not nullable.
CollectionObject_delete(query_obj, ub, itemsOk, e, o) ==
  IF ~CHECK_DB_OPEND THEN DbRaise("database is not opened")
  ELSE IF query_obj.py = "noargs" THEN DbRaise("TypeError")
  ELSE IF query_obj.py # "dict"
    THEN DbRaise("the thid argument should be a dict")
  ELSE Delete_converted(
         PyDictToDbDocument_call(query_obj, "query", ub, itemsOk), e, o)

Py_CollectionObject_delete ==
  /\ dhost = "py"
  /\ dcol
  /\ \E arg \in QueryArgs, e \in EngineOutcomes("db"), o \in BadHandleOutcomes :
     \E ub \in SetNullOutcomesOf(arg), itemsOk \in PyDict_ItemsOutcomes(arg) :
       DbCall("delete", arg, CollectionObject_delete(arg, ub, itemsOk, e, o))

\* ec = PLDB_x(db, id, meta_version); if (ec < 0) raise; return
\* PyLong_FromLongLong(ec);
CountCall(fn, e) ==
  IF ~CHECK_DB_OPEND THEN DbRaise("database is not opened")
  ELSE IF e.rc < 0
    THEN [DbRes EXCEPT !.trace = << Call(fn, "db", 0, e.rc), ReadErrorMsg >>,
                       !.out = DbOut("raise", EngineMessage(fn), 0),
                       !.msg = EngineMessage(fn)]
  ELSE [DbRes EXCEPT !.trace = << Call(fn, "db", 0, e.rc) >>,
                     !.out = DbOut("return", "none", e.rc)]

Py_CollectionObject_delete_all ==
  /\ dhost = "py"
  /\ dcol
  /\ \E e \in EngineOutcomes("db") :
       DbCall("deleteAll", PyNone, CountCall("PLDB_delete_all", e))

Py_CollectionObject_count ==
  /\ dhost = "py"
  /\ dcol
  /\ \E e \in EngineOutcomes("db") :
       DbCall("count", PyNone, CountCall("PLDB_count", e))

NextDb ==
  \/ Py_DatabaseObject_start_transaction
  \/ Py_DatabaseObject_commit
  \/ Py_DatabaseObject_rollback
  \/ Py_DatabaseObject_close
  \/ Py_DatabaseObject_dealloc
  \/ Py_DatabaseObject_create_collection
  \/ Py_DatabaseObject_collection
  \/ Py_CollectionObject_insert
  \/ Py_CollectionObject_find
  \/ Py_CollectionObject_update
  \/ Py_CollectionObject_delete
  \/ Py_CollectionObject_delete_all
  \/ Py_CollectionObject_count
  \/ Db_js_start_transaction
  \/ Db_js_commit
  \/ Db_js_rollback
  \/ Db_js_close
  \/ Js_DatabaseObject_start_transaction
  \/ Js_DatabaseObject_commit
  \/ Js_DatabaseObject_rollback
  \/ Js_DatabaseObject_close
  \/ Js_finalize

\* A Database a binding opened successfully (DatabaseObject_init, js_open,
\* DatabaseObject_ctor): the binding holds the pointer PLDB_open returned.
InitDb ==
  /\ EngineIdle /\ FindIdle /\ JsIdle /\ ConvIdle /\ IterIdle /\ ApiIdle
  /\ dhost \in {"py", "js_ext", "js_obj"}
  /\ dself = "db" /\ dengine = "open" /\ dalive = TRUE /\ dcol = FALSE
  /\ dop = "none" /\ darg = PyNone /\ dtrace = << >>
  /\ dout = DbOut("none", "none", 0) /\ ddict = << >> /\ dmsg = "none"
  /\ dncalls = 0 /\ nclose = 0

SpecDb == InitDb /\ [][NextDb]_vars

-----------------------------------------------------------------------------
(* Properties of CollectionObject_find (specification Spec).               *)

\* C1: on every exit path of find the handle PLDB_find produced is released
\* exactly once, and no release is issued for a handle it never produced.
C1_HandleReleasedExactlyOnce ==
  /\ (pc = "done" /\ handle = "H") => nfree = 1
  /\ nfree <= 1
  /\ nfreeNull = 0

\* The conversion of the rows, in the engine's order.
RowsAsPyList == PyList([i \in 1..Len(rows) |-> DbValueToPyObject(rows[i], "").obj])

\* C2: a drain over N rows in which no step fails ends after exactly N+1
\* step calls and N get calls, and returns the N rows in the engine's order.
C2_DrainStepsAndGets ==
  (pc \in {"done", "crashed"} /\ handle = "H" /\ ~stepFailed) =>
    /\ ret = "list"
    /\ nstep = Len(rows) + 1
    /\ nget = Len(rows)
    /\ result = RowsAsPyList

\* C5: once a step call has failed, find raises the engine's last error
\* message, returns no list, and issues no further step or get call.
C5_StepFailureRaises ==
  stepFailed =>
    /\ afterFail = 0
    /\ pyerr \in ErrorMessages /\ pyerr = errmsg
    /\ pc \in {"handle_err", "done"}
    /\ ret # "list"
    /\ pc = "done" => ret = "NULL"

\* C5 happens: find has returned after a step failed in the middle of a
\* drain, with a row already fetched.
C5_Witness ==
  /\ pc = "done" /\ stepFailed /\ nget >= 1 /\ nstep >= 2
  /\ ret = "NULL" /\ Len(result.s) >= 1

-----------------------------------------------------------------------------
(* Properties of the addon's cursor functions (specification SpecHandle).  *)

\* C3: get is valid only in HasRow: called on a handle in any other state it
\* is reported as an error and yields no Value; in HasRow it yields the
\* current row and leaves the state unchanged.
C3_GetOnlyInHasRow ==
  (jsop = "get" /\ jsexc # BadArgumentMessage) =>
    IF jsat = "HasRow"
      THEN /\ jsexc = "none"
           /\ jsret = JsRet("external", rows[hpos], "None")
           /\ hstate = "HasRow"
      ELSE /\ jsexc # "none"
           /\ jsret.kind = "NULL"

\* C4: Exhausted and Failed are absorbing: no operation, a step included,
\* changes the state or the position of a cursor that is in one of them.
C4_TerminalStatesAbsorbing ==
  [][(hstate \in TerminalStates) => (hstate' = hstate /\ hpos' = hpos)]_vars

\* C4 happens: step has been called on a cursor over a non-empty result set
\* that was already Exhausted, and the cursor is still Exhausted.
C4_Witness ==
  /\ jsop = "step" /\ jsexc = "none"
  /\ jsat = "Exhausted" /\ hstate = "Exhausted" /\ Len(rows) >= 1

-----------------------------------------------------------------------------
(* Properties of the conversion layer (specification SpecConv).            *)

\* C6: a Value converted to a host value and back is the Value it was.
C6_RoundTrip ==
  (ckind = "RoundTrip" /\ cdone) => cout = cin

\* C7: DbValueToPyObject returns a host value, and raises no error, for a
\* Value of each of the ten tags.
C7_ValueToHostTotal ==
  (ckind = "DbValueToPyObject" /\ cdone /\ cin.tag \in PLDB_VALUE_TYPE) =>
    cout.py \notin {"NULL", "CRASH"}

\* C8: the dict made from a Document has exactly the Document's keys, in
\* the Document's order, each mapped to the conversion of its own value.
C8_DocumentKeysInOrder ==
  (ckind = "DbValueToPyObject" /\ cdone /\ cin.tag = "Document"
     /\ cout.py = "dict") =>
    /\ Len(cout.s) = Len(cin.s)
    /\ \A i \in 1..Len(cin.s) :
         /\ cout.s[i].key = cin.s[i].key
         /\ cout.s[i].value = DbValueToPyObject(cin.s[i].value, "").obj

JsNullLike(value) == value.js \in {"undefined", "null"}

\* The Document `out` maps `key` to `value`.
Maps(out, key, value) ==
  /\ out.tag = "Document"
  /\ \E j \in 1..Len(out.s) : out.s[j] = DbEntry(key, value)

\* C9: None, undefined and null convert to Null, at top level, as a field
\* of a keyed object and as an element of a list (the other fields and
\* elements being of supported shapes).
C9_NullConvertsToNull ==
  /\ (ckind = "js_value_to_DbValue" /\ cdone) =>
       /\ JsNullLike(cin) => cout = DbNull
       /\ (cin.js = "object" /\ \A i \in 1..Len(cin.s) : JsNullLike(cin.s[i].value)) =>
            \A i \in 1..Len(cin.s) : Maps(cout, cin.s[i].key, DbNull)
       /\ (cin.js = "array" /\ \A i \in 1..Len(cin.s) : JsNullLike(cin.s[i])) =>
            /\ cout.tag = "Array" /\ Len(cout.s) = Len(cin.s)
            /\ \A i \in 1..Len(cin.s) : cout.s[i] = DbNull
  /\ (ckind = "PyDictToDbDocument" /\ cdone) =>
       \A i \in 1..Len(cin.s) :
         /\ cin.s[i].value = PyNone => Maps(cout, cin.s[i].key, DbNull)
         /\ (cin.s[i].value.py = "list" /\ cin.s[i].value.s # << >>
               /\ cin.s[i].value.s[1] = PyNone) =>
              \E j \in 1..Len(cout.s) :
                /\ cout.s[j].key = cin.s[i].key
                /\ cout.s[j].value.tag = "Array"
                /\ cout.s[j].value.s[1] = DbNull

\* C10: a host date converts to the UTCDateTime of its milliseconds since
\* the epoch, and that UTCDateTime converts back to the same date.
C10_DateConvertsToUTCDateTimeMs ==
  /\ (ckind = "js_value_to_DbValue" /\ cdone /\ cin.js = "date") =>
       cout = DbValue("UTCDateTime", cin.n)
  /\ (ckind = "PyDictToDbDocument" /\ cdone) =>
       \A i \in 1..Len(cin.s) :
         cin.s[i].value.py = "datetime" =>
           /\ Maps(cout, cin.s[i].key, DbValue("UTCDateTime", cin.s[i].value.n))
           /\ \E j \in 1..Len(cout.s) :
                /\ cout.s[j].key = cin.s[i].key
                /\ DbValueToPyObject(cout.s[j].value, "").obj = cin.s[i].value

\* The host value, or a value inside it, is of a shape no conversion rule
\* accepts (Python: bytes; JavaScript: a symbol).
RECURSIVE PyHoldsUnsupported(_)
PyHoldsUnsupported(value) ==
  \/ value.py = "bytes"
  \/ value.py = "dict" /\ \E i \in 1..Len(value.s) : PyHoldsUnsupported(value.s[i].value)
  \/ value.py = "list" /\ \E i \in 1..Len(value.s) : PyHoldsUnsupported(value.s[i])

RECURSIVE JsHoldsUnsupported(_)
JsHoldsUnsupported(value) ==
  \/ value.js = "symbol"
  \/ value.js = "object" /\ \E i \in 1..Len(value.s) : JsHoldsUnsupported(value.s[i].value)
  \/ value.js = "array" /\ \E i \in 1..Len(value.s) : JsHoldsUnsupported(value.s[i])

\* C11: a host value of an unsupported shape, at top level or anywhere
\* inside a dict, object or list, makes the conversion fail (NULL with an
\* error raised); no Document or Array is returned without it.
C11_UnsupportedShapeFails ==
  /\ (ckind = "PyDictToDbDocument" /\ cdone /\ PyHoldsUnsupported(cin)) =>
       cout = DbNULL
  /\ (ckind = "js_value_to_DbValue" /\ cdone /\ JsHoldsUnsupported(cin)) =>
       cout = DbNULL

\* The Document `out` maps `key` to a Value of the tag `tag`.
MapsToTag(out, key, tag) ==
  \E j \in 1..Len(out.s) : out.s[j].key = key /\ out.s[j].value.tag = tag

\* C12: a number converts to Int exactly when the host's integer predicate
\* holds for it (Number.isInteger; for Python, being an int), to Double
\* otherwise, and a boolean converts to Boolean.
C12_IntegerPredicateDecides ==
  /\ (ckind = "js_value_to_DbValue" /\ cdone /\ cin.js = "number") =>
       cout.tag = IF cin.n % 10 = 0 THEN "Int" ELSE "Double"
  /\ (ckind = "js_value_to_DbValue" /\ cdone /\ cin.js = "boolean") =>
       cout.tag = "Boolean"
  /\ (ckind = "PyDictToDbDocument" /\ cdone /\ cout.tag = "Document") =>
       \A i \in 1..Len(cin.s) :
         /\ cin.s[i].value.py \in {"int", "int_subclass"} =>
              MapsToTag(cout, cin.s[i].key, "Int")
         /\ cin.s[i].value.py = "float" => MapsToTag(cout, cin.s[i].key, "Double")
         /\ cin.s[i].value.py = "bool" => MapsToTag(cout, cin.s[i].key, "Boolean")

\* The conversion of the element fails: it is of an unsupported shape
\* (JavaScript: a symbol or null), or its timestamp() raises (Python).
JsElementFails(value) == value.js \in {"symbol", "null"}
PyElementFails(value) == value.py = "datetime_raises"

\* C13: when the conversion of an element of a host list fails, no Array
\* is returned or set into the parent: the whole conversion returns NULL
\* with the error raised.
C13_ArrayAbortsAtFailingElement ==
  /\ (ckind = "js_value_to_DbValue" /\ cdone /\ cin.js = "array"
        /\ \E i \in 1..Len(cin.s) : JsElementFails(cin.s[i])) =>
       cout = DbNULL
  /\ (ckind = "PyDictToDbDocument" /\ cdone
        /\ \E i \in 1..Len(cin.s) :
             /\ cin.s[i].value.py = "list"
             /\ \E k \in 1..Len(cin.s[i].value.s) :
                  PyElementFails(cin.s[i].value.s[k])) =>
       cout = DbNULL

-----------------------------------------------------------------------------
(* Properties of the Document iterator's consumers (specification          *)
(* SpecIter).                                                              *)

\* C15: a consumer treats a negative return of next as the buffer error: it
\* reports an error to the host, does not run its per-entry code, and takes
\* no key or Value from the call; a zero return ends the iteration and a
\* positive one is an entry.
C15_ThreeOutcomesDistinguished ==
  /\ (itcalls > 0 /\ itlast < 0) =>
       /\ itpc # "body"
       /\ iterr # "none"
  /\ (ithost = "py" /\ itcalls > 0 /\ itlast = 0) => itpc = "done"

\* C16: the iterator has consumed at most the Document's entries, and the
\* loop of DocumentTypeValueToPyObject calls next at most once per entry
\* plus once for the sentinel, whatever the keys are.
C16_IterationBounded ==
  /\ itpos <= Len(itdoc)
  /\ ithost = "py" => itcalls <= Len(itdoc) + 1

-----------------------------------------------------------------------------
(* Properties of the addon's value, container and database functions       *)
(* (specification SpecApi).                                                *)

\* C14: Array get with an index inside the Array returns the Value at that
\* index; with the index len or -1 it throws an error.
C14_ArrayGetBoundsChecked ==
  (aop = "js_array_get" /\ aeng.called) =>
    IF 0 <= aidx /\ aidx < Len(aarg.s)
      THEN aout = ApiOut("value", aarg.s[aidx + 1], "none")
      ELSE aout.kind = "throw"

\* The functions that forward to an engine function returning an integer.
IntForwarding ==
  { "js_array_get", "js_value_get_i64", "js_value_get_bool",
    "js_value_get_double", "js_value_get_array", "js_value_get_doc",
    "js_value_get_object_id", "js_value_get_string", "js_doc_set",
    "js_create_collection", "js_start_transaction" }

\* C17: a function that reached the engine throws exactly when the engine
\* function returned a negative value; zero and positive returns succeed.
C17_FailureIffNegative ==
  (aop \in IntForwarding /\ aeng.called) =>
    (aout.kind = "throw" <=> aeng.rc < 0)

\* C18: when the engine function returned its failure indicator (a negative
\* code or a NULL handle), the function throws.
C18_NoEngineErrorSwallowed ==
  (aeng.called /\ aeng.failed) => aout.kind = "throw"

\* C19: no call ends with the process aborted.
C19_NoAbort ==
  aout.kind # "abort"

\* The tag each typed accessor asks for.
RequestedTag(op) ==
  CASE op = "js_value_get_i64" -> "Int"
    [] op = "js_value_get_bool" -> "Boolean"
    [] op = "js_value_get_double" -> "Double"
    [] op = "js_value_get_array" -> "Array"
    [] op = "js_value_get_doc" -> "Document"
    [] op = "js_value_get_object_id" -> "ObjectId"
    [] op = "js_value_get_string" -> "String"
    [] OTHER -> "none"

\* C20: a typed accessor called on a Value of another tag throws a type
\* error and returns no payload.
C20_TypedExtractionMismatch ==
  (RequestedTag(aop) # "none" /\ aeng.called /\ aarg.tag # RequestedTag(aop)) =>
    aout.kind = "throw"

-----------------------------------------------------------------------------
(* Claims about the Database and Collection objects (SpecDb).              *)

\* C21: over any sequence of close() calls followed by garbage collection,
\* PLDB_close is called exactly once for the opened Database: never twice,
\* and once by the time the binding object is gone.
C21_CloseExactlyOnce ==
  /\ nclose <= 1
  /\ (dhost # "none" /\ ~dalive) => nclose = 1

\* C22: PLDB_rollback is called only by a host rollback() call, and a
\* failing insert, find, update, delete or commit issues neither a rollback
\* nor a (further) commit: a method's only rollback or commit is the one
\* call the host asked for.
C22_NoRollbackOnItsOwn ==
  \A i \in 1..Len(dtrace) :
    /\ dtrace[i].fn = "PLDB_rollback" => (dop = "rollback" /\ i = 1)
    /\ dtrace[i].fn = "PLDB_commit" => (dop = "commit" /\ i = 1)

\* C22 witness: an insert whose PLDB_insert failed has raised.
C22_Witness ==
  /\ dop = "insert"
  /\ dout.kind = "raise"
  /\ \E i \in 1..Len(dtrace) : dtrace[i].fn = "PLDB_insert" /\ dtrace[i].rc < 0

\* C23: when an engine call of a method fails, the next engine-facing call
\* of the method is the read of PLDB_error_msg, and the message is read
\* only right after the call that failed.
C23_MessageReadFirst ==
  dout.kind # "crash" =>
    \A i \in 1..Len(dtrace) :
      /\ (dtrace[i].fn # "PLDB_error_msg" /\ dtrace[i].rc < 0) =>
           (i < Len(dtrace) /\ dtrace[i + 1].fn = "PLDB_error_msg")
      /\ dtrace[i].fn = "PLDB_error_msg" => (i > 1 /\ dtrace[i - 1].rc < 0)

\* C24: the mode a binding hands to PLDB_start_transaction is Auto (0),
\* ReadOnly (1) or ReadWrite (2); startTransaction without a mode hands it
\* Auto, and an argument outside that set is rejected before the engine is
\* called.
C24_ModeForwarded ==
  dop = "startTransaction" =>
    /\ \A i \in 1..Len(dtrace) :
         dtrace[i].fn = "PLDB_start_transaction" => dtrace[i].n \in {0, 1, 2}
    /\ (darg.py \in {"noargs", "undefined"} /\ dout.kind \notin {"crash", "abort"}) =>
         (dtrace # << >> /\ dtrace[1].fn = "PLDB_start_transaction"
                         /\ dtrace[1].n = PLDB_TRANS_AUTO)

\* C25: every Value a method of the Python binding obtained from an
\* extracting accessor (PLDB_handle_get, PLDB_doc_get) is released by the
\* time the method returns or raises: as many PLDB_free_value calls as
\* Values obtained.
C25_ExtractedValuesReleased ==
  (dhost = "py" /\ dout.kind # "crash") =>
    CountCalls(dtrace, "PLDB_free_value") =
      Cardinality({ i \in 1..Len(dtrace) :
                      /\ dtrace[i].fn \in {"PLDB_handle_get", "PLDB_doc_get"}
                      /\ dtrace[i].rc >= 0 })

\* C26: an insert of a dict holding an int outside the signed 64-bit range
\* that reaches PLDB_insert raises no error, and the Document it converted
\* holds the int truncated to its low 64 bits.
C26_OutOfRangeTruncated ==
  (/\ dop = "insert"
   /\ darg.py = "dict" /\ Len(darg.s) = 1 /\ darg.s[1].value.py = "bigint"
   /\ \E i \in 1..Len(dtrace) : dtrace[i].fn = "PLDB_insert" /\ dtrace[i].rc >= 0) =>
    /\ dout.kind = "return"
    /\ PyDictToDbDocument(darg, "nothing") =
         DbDoc(<< DbEntry(darg.s[1].key, DbValue("Int", darg.s[1].value.n)) >>)

\* C27: Database.collection(name) with a str returns a Collection unless
\* the engine reports an error, and whenever it fails (a name that is not a
\* str, an engine error) an exception is set.
C27_CollectionReturned ==
  (dop = "collection" /\ dout.kind # "crash") =>
    /\ dout.kind # "null_no_exception"
    /\ darg.py = "str" =>
         \/ dout.kind = "collection"
         \/ /\ dout.kind = "raise"
            /\ dout.msg = EngineMessage("PLDB_get_collection_meta_by_name")

\* C28: find, update and delete of the Python binding hand PLDB_find,
\* PLDB_update and PLDB_delete a Document for every dict the caller passed:
\* a dict whose conversion failed is never forwarded as a NULL Document.
C28_FailedConversionNotForwarded ==
  \A i \in 1..Len(dtrace) :
    /\ (dtrace[i].fn \in {"PLDB_find", "PLDB_delete"} /\ darg.py = "dict") =>
         dtrace[i].args[1] # "NULL"
    /\ dtrace[i].fn = "PLDB_update" =>
         /\ dtrace[i].args[2] # "NULL"
         /\ darg.s[1].py = "dict" => dtrace[i].args[1] # "NULL"

\* C29: once the Python Database is closed, every later method of it or of
\* a Collection made from it raises 'database is not opened' and hands no
\* engine function the closed or a null Database.
C29_ClosedDatabaseRejects ==
  (dhost = "py" /\ dalive /\ dself = "NULL"
     /\ dop \notin {"none", "close", "dealloc"}) =>
    /\ dout = DbOut("raise", "database is not opened", 0)
    /\ \A i \in 1..Len(dtrace) : dtrace[i].h \notin {"NULL", "dangling"}

\* C30: an insert that got as far as converting its dict leaves the dict as
\* it was, or, when PLDB_insert returned a positive code, with '_id' set to
\* the host conversion of the generated id; and every Document made for
\* the call is freed exactly once.
C30_InsertDictAndDocument ==
  (dop = "insert" /\ dtrace # << >> /\ dout.kind # "crash") =>
    /\ \/ ddict = darg.s
       \/ /\ \E i \in 1..Len(dtrace) :
               dtrace[i].fn = "PLDB_insert" /\ dtrace[i].rc > 0
          /\ ddict = PyDict_SetItemString(
                       darg.s, "_id",
                       DbValueToPyObject(DbValue("ObjectId", 1), "").obj)
    /\ CountCalls(dtrace, "PLDB_free_doc") = CountCalls(dtrace, "PLDB_mk_doc")

====
